---- MODULE Spec2Model ----
(***************************************************************************)
(* A model of the polling / diffing / notification core of the Steam       *)
(* plugin: the four scheduled jobs of SteamTaskService, the tables of      *)
(* SteamDAO they read and write, and the message selection and group       *)
(* fan-out of NotificationService.                                         *)
(*                                                                         *)
(* Conventions.                                                            *)
(*   - A database row that may be missing (fetchrow returning None) and a  *)
(*     JSON key that may be missing are sequences: <<>> when missing,      *)
(*     <<v>> or the row's tuple when present.                              *)
(*   - playtime_forever is in minutes and a snapshot holds hours, as in     *)
(*     the code; the libraries drawn hold whole hours only.                *)
(*   - Each job is cut into actions at its awaits (the outbound request    *)
(*     and the send functions); the code between two awaits is one step.   *)
(***************************************************************************)
EXTENDS Integers, Sequences, FiniteSets, TLC

VARIABLES
    bindings,            \* table bindings: set of <<qq_id, steam_id>>
    friend_status,       \* table friend_status: [User \X Friend -> <<>> or <<status, gameinfo>>]
    notify_prefs,        \* table notify_prefs: [User -> sequence of <<group_id, prefs>>]
    mf_pc,               \* monitor_friends: where the invocation stands
    mf_work,             \* monitor_friends: bindings still to process, current one first
    mf_ids,              \* monitor_friends: steamids of the current binding's friend list
    mf_left,             \* monitor_friends: players of the summaries response not yet iterated
    mf_prefs,            \* monitor_friends: prefs_rows read for the current binding
    mf_last,             \* the friend evaluation in progress or last finished
    mf_end,              \* how the last finished invocation of monitor_friends ended
    game_subscriptions,  \* table game_subscriptions: [User \X App -> <<>> or <<news, deals>>]
    news_history,        \* table news_history: [App \X NewsId -> <<>> or <<sent>>]
    cn_pc,               \* check_game_news: where the invocation stands
    cn_work,             \* check_game_news: subscriptions still to process, current one first
    cn_left,             \* check_game_news: news items of the response not yet iterated
    cn_last,             \* the news item evaluation in progress or last finished
    cn_end,              \* how the last finished invocation of check_game_news ended
    news_notified,       \* [App \X NewsId -> content of the notification delivered for it, or ""]
    news_again,          \* a notification was sent for an item already delivered
    news_told,           \* <<user, game, item>> of the news notifications whose dispatch returned
    market_watches,      \* table market_watches: [WatchId -> <<>> or <<row>>]
    cd_pc,               \* check_game_discounts: where the invocation stands
    cd_subs,             \* check_game_discounts: deals subscriptions still to process
    cd_map,              \* check_game_discounts: keys of discount_map, while the deals loop uses it
    cd_deal,             \* the deals subscription evaluation last finished
    cd_watches,          \* check_game_discounts: watch rows still to process, current one first
    cd_last,             \* the watch evaluation last finished
    cd_end,              \* how the last finished invocation of check_game_discounts ended
    obs_fired,           \* target-reached outcome of each observation of watch 1 while they follow PriceScript
    library_stats,       \* table library_stats: [User \X Day -> <<>> or <<stats>>]
    today,               \* the calendar day
    gl_pc,               \* generate_library_stats: where the invocation stands
    gl_work,             \* generate_library_stats: bindings still to process, current one first
    gl_day,              \* generate_library_stats: today, as read when the invocation started
    gl_last,             \* the library evaluation last finished
    gl_end,              \* how the last finished invocation of generate_library_stats ended
    mt_pc,               \* _is_muted_time: called or not
    mt_now,              \* _is_muted_time: the current local time
    mt_ranges,           \* _is_muted_time: its argument
    mt_result,           \* _is_muted_time: its result
    cl_method,           \* API client: the fetch method under call
    cl_ticks,            \* API client: check intervals elapsed since the client was created
    cl_platform,         \* API client: what the platform answers to the call's parameters now
    cl_cache,            \* API client: the cache entry of the call's key, <<>> or <<[value, at]>>
    cl_inner,            \* client: what request's own decorator holds under a wrapping method
    cl_last,             \* API client: the call last made
    sc_state,            \* scheduler manager: created, initialized, running, stopping, stopped
    sc_inflight,         \* scheduler: [job -> number of its invocations in flight]
    sc_end,              \* scheduler: [job -> how its last finished invocation ended]
    sc_escaped,          \* scheduler: an exception left a job function
    sc_last,             \* scheduler: what the last trigger did
    session,             \* API client: _session is none, open or closed
    unload,              \* on_unload: not called, its close task pending, or done
    fo_pc,               \* _send_group_notifications: called or not
    fo_rows,             \* _send_group_notifications: prefs_rows
    fo_friend,           \* _send_group_notifications: friend_id
    fo_game,             \* _send_group_notifications: game
    fo_now,              \* _send_group_notifications: the current local time
    fo_fails,            \* the groups send_to_group raises for
    fo_tried,            \* the groups send_to_group was called for
    fo_delivered,        \* the groups send_to_group returned for
    clock,               \* int(time.time()), in units in which two passes differ
    cmd_last,            \* the command last handled
    uf_pc,               \* update_friend_status: called or not
    uf_rows,             \* update_friend_status: the rows of friend_status before the call
    uf_arg,              \* update_friend_status: <<qq_id, friend_steamid, status, gameinfo>>
    uf_once,             \* the rows after one call
    uf_twice,            \* the rows after a second call with the same arguments
    tg_pc,               \* snapshot of a library: computed or not
    tg_list,             \* snapshot of a library: the games list of the response
    tg_stats             \* snapshot of a library: the stats built from it

friendVars == <<bindings, friend_status, notify_prefs, mf_pc, mf_work, mf_ids,
                mf_left, mf_prefs, mf_last, mf_end>>
newsVars == <<game_subscriptions, news_history, cn_pc, cn_work, cn_left, cn_last,
              cn_end, news_notified, news_again, news_told>>
dealVars == <<market_watches, cd_pc, cd_subs, cd_map, cd_deal, cd_watches,
              cd_last, cd_end, obs_fired>>
statsVars == <<library_stats, today, gl_pc, gl_work, gl_day, gl_last, gl_end>>
clientVars == <<cl_method, cl_ticks, cl_platform, cl_cache, cl_inner, cl_last>>
schedVars == <<sc_state, sc_inflight, sc_end, sc_escaped, sc_last, session, unload>>
cmdVars == <<clock, cmd_last>>
pureVars == <<mt_pc, mt_now, mt_ranges, mt_result,
              fo_pc, fo_rows, fo_friend, fo_game, fo_now, fo_fails, fo_tried, fo_delivered,
              uf_pc, uf_rows, uf_arg, uf_once, uf_twice,
              tg_pc, tg_list, tg_stats>>

vars == <<friendVars, newsVars, dealVars, statsVars, clientVars, schedVars, cmdVars, pureVars>>

----------------------------------------------------------------------------
(* Bounds and input domains.                                               *)

MaxPlayers == 2

User == {"u1", "u2"}
Friend == {"f1", "f2"}
Group == {"grpA", "grpB"}

\* The platform account bound to each user, and the accounts on its friend
\* list ("f2" is an account that is on nobody's list).
SteamIdOf(u) == IF u = "u1" THEN "s1" ELSE "s2"
PlatformFriends(s) == {"f1"}


\* Outcome of one outbound HTTP call: a 2xx JSON answer, an aiohttp
\* ClientError (connection error, non-2xx through raise_for_status), or the
\* session's total timeout, which aiohttp raises as asyncio.TimeoutError.
FetchKind == {"ok", "connection_error", "bad_status", "timeout"}

\* Outcome of one send_to_user / send_to_group call.
SendOutcome == {"ok", "raise"}

\* dict.get(key, default) on a key that may be missing.
Get(opt, default) == IF opt = <<>> THEN default ELSE opt[1]

----------------------------------------------------------------------------
(* SteamAPIClient.request: the try/except around session.get.              *)

\* except ClientError: the error kinds the handler catches.
IsClientError(kind) == kind \in {"connection_error", "bad_status"}

\* The call raises to its caller when the failure is not a ClientError.
RequestRaises(kind) == kind # "ok" /\ ~IsClientError(kind)

\* What request returns when it returns: the JSON body, or {} after a
\* caught ClientError.
RequestResult(kind, body, empty) == IF kind = "ok" THEN body ELSE empty

----------------------------------------------------------------------------
(* SteamAPIClient: the fetch methods and the cache in front of them.       *)

MaxTicks == 6

\* check_interval when the configuration does not set it, in seconds: the
\* time between two invocations of monitor_friends.
CheckInterval == 60

\* The fetch methods: those that issue the outbound call themselves, and
\* those that call request.
Method ==
    {"request", "partner_request", "get_game_details", "get_market_price",
     "get_featured_games", "get_achievements", "get_all_achievements",
     "get_owned_games", "get_news_for_app"}

\* The methods whose body is "return await self.request(...)".
Wraps(method) ==
    method \in {"get_achievements", "get_all_achievements", "get_owned_games",
                "get_news_for_app"}

\* The @cached decorator of a method; partner_request has none.
IsCached(method) == method # "partner_request"

\* @cached(ttl=...), in seconds.
Ttl(method) ==
    CASE method = "request" -> 300
      [] method = "get_game_details" -> 3600
      [] method = "get_market_price" -> 1800
      [] method = "get_featured_games" -> 14400
      [] method \in {"get_achievements", "get_all_achievements", "get_owned_games"} -> 1800
      [] method = "get_news_for_app" -> 3600
      [] OTHER -> 0

\* What the platform can answer to one set of parameters, and the {} the
\* methods return after a caught ClientError.
Answer == {"a", "b"}
EmptyResult == "empty"

\* A variant whose entries never run out.
CacheGetForever(cache, method, ticks) ==
    IF ~IsCached(method) \/ cache = <<>> THEN <<>> ELSE <<cache[1].value>>

\* The decorator's lookup, under the key the method and its arguments
\* give: the stored value while its ttl has not run out, ticks check
\* intervals after the client was created.
CacheGet(cache, method, ticks) ==
    IF ~IsCached(method) \/ cache = <<>> THEN <<>>
    ELSE IF (ticks - cache[1].at) * CheckInterval >= Ttl(method) THEN <<>>
    ELSE <<cache[1].value>>

\* The decorator stores whatever the method returned.
CacheSet(cache, method, ticks, value) ==
    IF IsCached(method) THEN <<[value |-> value, at |-> ticks]>> ELSE <<>>

\* The call last made: at is the tick it was made in; prev_failed and
\* prev_at tell whether the call before it issued an outbound request that
\* failed, and in which tick; prev_outbound and prev_value tell whether
\* the call before it issued an outbound request at all, and what it
\* returned.
NoCall ==
    [phase |-> "init", outbound |-> FALSE, kind |-> "none", value |-> <<>>,
     platform |-> "a", at |-> 0, prev_failed |-> FALSE, prev_at |-> 0,
     prev_outbound |-> FALSE, prev_value |-> <<>>]

\* One call of the method with the same arguments: the cached value is
\* returned when there is one; else the body runs. The body of a wrapping
\* method is a call of request, with that decorator's lookup first; the
\* outbound call returns the answer, or {} after a ClientError, or raises.
\* Each decorator stores what its method returned.
CL_Call ==
    /\ \E kind \in FetchKind :
        LET hit == CacheGet(cl_cache, cl_method, cl_ticks)
            inner == IF Wraps(cl_method) THEN CacheGet(cl_inner, "request", cl_ticks)
                     ELSE <<>>
            call == [NoCall EXCEPT !.platform = cl_platform, !.at = cl_ticks,
                                   !.prev_failed = cl_last.outbound /\ cl_last.kind # "ok",
                                   !.prev_at = cl_last.at,
                                   !.prev_outbound = cl_last.outbound,
                                   !.prev_value = cl_last.value]
            result == RequestResult(kind, cl_platform, EmptyResult)
        IN  IF hit # <<>>
            THEN /\ cl_last' = [call EXCEPT !.phase = "returned", !.value = hit]
                 /\ UNCHANGED <<cl_cache, cl_inner>>
            ELSE IF inner # <<>>
            THEN /\ cl_last' = [call EXCEPT !.phase = "returned", !.value = inner]
                 /\ cl_cache' = CacheSet(cl_cache, cl_method, cl_ticks, inner[1])
                 /\ UNCHANGED cl_inner
            ELSE IF RequestRaises(kind)
            THEN /\ cl_last' = [call EXCEPT !.phase = "raised", !.outbound = TRUE,
                                            !.kind = kind]
                 /\ cl_cache' = <<>>
                 /\ cl_inner' = <<>>
            ELSE /\ cl_last' = [call EXCEPT !.phase = "returned", !.outbound = TRUE,
                                            !.kind = kind, !.value = <<result>>]
                 /\ cl_cache' = CacheSet(cl_cache, cl_method, cl_ticks, result)
                 /\ cl_inner' = IF Wraps(cl_method)
                                 THEN CacheSet(cl_inner, "request", cl_ticks, result)
                                 ELSE cl_inner
    /\ UNCHANGED <<cl_method, cl_ticks, cl_platform>>
    /\ UNCHANGED <<friendVars, newsVars, dealVars, statsVars, schedVars, cmdVars, pureVars>>

\* The ttl of the method's decorator, or one check interval less, passes
\* at once.
CL_Wait ==
    /\ cl_ticks <= MaxTicks
    /\ \E d \in {Ttl(cl_method) \div CheckInterval - 1, Ttl(cl_method) \div CheckInterval} :
        /\ d > 1
        /\ cl_ticks' = cl_ticks + d
    /\ UNCHANGED <<cl_method, cl_platform, cl_cache, cl_inner, cl_last>>
    /\ UNCHANGED <<friendVars, newsVars, dealVars, statsVars, schedVars, cmdVars, pureVars>>

\* One check interval passes.
CL_Tick ==
    /\ cl_ticks < MaxTicks
    /\ cl_ticks' = cl_ticks + 1
    /\ UNCHANGED <<cl_method, cl_platform, cl_cache, cl_inner, cl_last>>
    /\ UNCHANGED <<friendVars, newsVars, dealVars, statsVars, schedVars, cmdVars, pureVars>>

\* What the platform would answer changes (a friend comes online, a price
\* moves).
CL_PlatformChanges ==
    /\ \E v \in Answer \ {cl_platform} : cl_platform' = v
    /\ UNCHANGED <<cl_method, cl_ticks, cl_cache, cl_inner, cl_last>>
    /\ UNCHANGED <<friendVars, newsVars, dealVars, statsVars, schedVars, cmdVars, pureVars>>

----------------------------------------------------------------------------
(* NotificationService._is_muted_time.                                     *)

\* A time of day; datetime.time values compare by (hour, minute, second).
TimeSecs(t) == t.h * 3600 + t.m * 60 + t.s

\* datetime.strptime(part, "%H:%M") succeeds on a well-formed part.
StrptimeOk(part) == part.h \in 0..23 /\ part.m \in 0..59

\* A mute range is the list of parts mute_range.split("-") yields; the
\* unpacking start, end = ... needs exactly two, and both must parse.
RangeParses(r) == Len(r) = 2 /\ StrptimeOk(r[1]) /\ StrptimeOk(r[2])

\* start_time <= current_time <= end_time
InRange(r, now) ==
    /\ r[1].h * 3600 + r[1].m * 60 <= TimeSecs(now)
    /\ TimeSecs(now) <= r[2].h * 3600 + r[2].m * 60

IsMutedTime(mute_ranges, now) ==
    \E i \in 1..Len(mute_ranges) :
        RangeParses(mute_ranges[i]) /\ InRange(mute_ranges[i], now)

----------------------------------------------------------------------------
(* NotificationService: message selection and group fan-out.               *)

\* A variant that looks at the change of status first.
FriendMessageStatusFirst(game, status_changed, game_changed) ==
    IF ~status_changed /\ ~game_changed THEN "none"
    ELSE IF game # "" /\ status_changed THEN "in_game"
    ELSE IF status_changed THEN "online"
    ELSE IF game # "" /\ game_changed THEN "start_game"
    ELSE "none"

\* send_friend_status_notification, lines 38-53: which message is built.
FriendMessage(game, status_changed, game_changed) ==
    IF ~status_changed /\ ~game_changed THEN "none"
    ELSE IF game # "" /\ game_changed THEN "start_game"
    ELSE IF game # "" /\ status_changed THEN "in_game"
    ELSE IF status_changed THEN "online"
    ELSE "none"

\* _send_group_notifications: the filter one stored preference applies.
\* cfg.ok is whether json.loads(prefs) parses.
GroupPasses(cfg, friend_id, game, now) ==
    /\ cfg.ok
    /\ ~(cfg.only_game /\ game = "")
    /\ ~(cfg.friends # {} /\ friend_id \notin cfg.friends)
    /\ ~IsMutedTime(cfg.mute, now)

\* The groups send_to_group is called for.
GroupsTried(prefs_rows, friend_id, game, now) ==
    {prefs_rows[i][1] : i \in {j \in 1..Len(prefs_rows) :
                                   GroupPasses(prefs_rows[j][2], friend_id, game, now)}}

\* A variant in which the first group that raises, or whose preference does
\* not parse, ends the loop.
GroupsDeliveredUntilFailure(prefs_rows, friend_id, game, now, fails) ==
    {prefs_rows[i][1] : i \in {j \in 1..Len(prefs_rows) :
        /\ GroupPasses(prefs_rows[j][2], friend_id, game, now)
        /\ \A k \in 1..j :
              /\ prefs_rows[k][2].ok
              /\ ~(GroupPasses(prefs_rows[k][2], friend_id, game, now)
                   /\ prefs_rows[k][1] \in fails)}}

\* The groups send_to_group returns for, when it raises for the groups in
\* fails: the try/except inside the loop logs a failure and goes on.
GroupsDelivered(prefs_rows, friend_id, game, now, fails) ==
    {prefs_rows[i][1] : i \in {j \in 1..Len(prefs_rows) :
        /\ GroupPasses(prefs_rows[j][2], friend_id, game, now)
        /\ prefs_rows[j][1] \notin fails}}

\* The preferences handle_notify_group can store (only_game, one mute
\* window, a friends list), and a stored text that json.loads rejects.
CfgInputs ==
    {[ok |-> TRUE, only_game |-> FALSE, friends |-> {}, mute |-> <<>>],
     [ok |-> TRUE, only_game |-> TRUE, friends |-> {}, mute |-> <<>>],
     [ok |-> TRUE, only_game |-> FALSE, friends |-> {"f1"}, mute |-> <<>>],
     [ok |-> TRUE, only_game |-> FALSE, friends |-> {"f2"}, mute |-> <<>>],
     [ok |-> TRUE, only_game |-> FALSE, friends |-> {},
      mute |-> << <<[h |-> 23, m |-> 0], [h |-> 7, m |-> 0]>> >>],
     [ok |-> TRUE, only_game |-> FALSE, friends |-> {},
      mute |-> << <<[h |-> 9, m |-> 0], [h |-> 17, m |-> 0]>> >>],
     [ok |-> FALSE, only_game |-> FALSE, friends |-> {}, mute |-> <<>>]}

\* get_notify_prefs: rows <<group_id, prefs>>, a group occurring once.
PrefsRowsInputs ==
    {<<>>}
    \cup {<<r>> : r \in Group \X CfgInputs}
    \cup {w \in {<<r1, r2>> : r1 \in Group \X CfgInputs, r2 \in Group \X CfgInputs} :
              w[1][1] # w[2][1]}

\* _send_group_notifications(friend_id, game, prefs_rows, message) is
\* called at the local time fo_now.
FO_Send ==
    /\ fo_pc = "ready"
    /\ fo_tried' = GroupsTried(fo_rows, fo_friend, fo_game, fo_now)
    /\ fo_delivered' = GroupsDelivered(fo_rows, fo_friend, fo_game, fo_now, fo_fails)
    /\ fo_pc' = "done"
    /\ UNCHANGED <<fo_rows, fo_friend, fo_game, fo_now, fo_fails>>
    /\ UNCHANGED <<friendVars, newsVars, dealVars, statsVars, clientVars, schedVars, cmdVars,
                   mt_pc, mt_now, mt_ranges, mt_result, uf_pc, uf_rows, uf_arg, uf_once,
                   uf_twice, tg_pc, tg_list, tg_stats>>

----------------------------------------------------------------------------
(* SteamTaskService.monitor_friends: change detection.                     *)

\* lines 53-56: prev_state, prev_game from the stored row.
PrevState(old) == IF old # <<>> THEN <<old[1]>> ELSE <<>>
PrevGame(old) == IF old # <<>> THEN old[2] ELSE ""

\* A variant that takes any change of presence for a change of status; the
\* notification rule below tells it apart from lines 63-66.
StatusChangedAny(old, state) ==
    /\ PrevState(old) # <<>>
    /\ state # PrevState(old)[1]

\* lines 63-66
StatusChanged(old, state) ==
    /\ PrevState(old) # <<>>
    /\ state # PrevState(old)[1]
    /\ state > 0
    /\ PrevState(old)[1] = 0

\* lines 69-70
GameChanged(old, game) == PrevGame(old) # game /\ game # ""

\* lines 73-76 with the message selection of the notification service.
FriendNotice(old, state, game) ==
    IF StatusChanged(old, state) \/ GameChanged(old, game)
    THEN FriendMessage(game, StatusChanged(old, state), GameChanged(old, game))
    ELSE "none"

\* SteamDAO.update_friend_status: UPDATE when the row exists, else INSERT.
UpdateFriendStatus(tbl, qq, fsid, status, gameinfo) ==
    [tbl EXCEPT ![<<qq, fsid>>] = <<status, gameinfo>>]

----------------------------------------------------------------------------
(* SteamDAO.update_friend_status on the rows of the table.                 *)

MaxRows == 2

\* The values a status, gameinfo pair is drawn from.
StatusInputs == {<<0, "">>, <<1, "">>, <<1, "g1">>}

\* The rows <<qq_id, friend_steamid, status, gameinfo>> the table can hold:
\* (qq_id, friend_steamid) is its primary key.
FriendRowsInputs ==
    {rows \in UNION {[1..n -> {<<k[1], k[2], v[1], v[2]>> : k \in User \X Friend,
                                                           v \in StatusInputs}] :
                        n \in 0..MaxRows} :
        \A i, j \in 1..Len(rows) :
            (rows[i][1] = rows[j][1] /\ rows[i][2] = rows[j][2]) => i = j}

\* get_friend_status: fetchrow of SELECT status, gameinfo ... WHERE qq_id=?
\* AND friend_steamid=?: the first row that matches, or None.
GetFriendStatus(rows, qq, fsid) ==
    IF \E i \in 1..Len(rows) : rows[i][1] = qq /\ rows[i][2] = fsid
    THEN LET i == CHOOSE i \in 1..Len(rows) :
                      /\ rows[i][1] = qq /\ rows[i][2] = fsid
                      /\ \A j \in 1..(i - 1) : ~(rows[j][1] = qq /\ rows[j][2] = fsid)
         IN  <<rows[i][3], rows[i][4]>>
    ELSE <<>>

\* A variant that inserts without looking for the row.
UpdateFriendStatusInsert(rows, qq, fsid, status, gameinfo) ==
    Append(rows, <<qq, fsid, status, gameinfo>>)

\* update_friend_status: UPDATE ... WHERE qq_id=? AND friend_steamid=? when
\* get_friend_status finds a row, else INSERT.
UpdateFriendStatusRows(rows, qq, fsid, status, gameinfo) ==
    IF GetFriendStatus(rows, qq, fsid) # <<>>
    THEN [i \in 1..Len(rows) |->
            IF rows[i][1] = qq /\ rows[i][2] = fsid
            THEN <<qq, fsid, status, gameinfo>> ELSE rows[i]]
    ELSE Append(rows, <<qq, fsid, status, gameinfo>>)

\* update_friend_status(qq_id, friend_steamid, status, gameinfo) is called,
\* and called again with the same arguments.
UF_Apply ==
    /\ uf_pc = "ready"
    /\ uf_once' = UpdateFriendStatusRows(uf_rows, uf_arg[1], uf_arg[2], uf_arg[3], uf_arg[4])
    /\ uf_twice' = UpdateFriendStatusRows(
                       UpdateFriendStatusRows(uf_rows, uf_arg[1], uf_arg[2], uf_arg[3],
                                              uf_arg[4]),
                       uf_arg[1], uf_arg[2], uf_arg[3], uf_arg[4])
    /\ uf_pc' = "done"
    /\ UNCHANGED <<uf_rows, uf_arg>>
    /\ UNCHANGED <<friendVars, newsVars, dealVars, statsVars, clientVars, schedVars, cmdVars,
                   mt_pc, mt_now, mt_ranges, mt_result, fo_pc, fo_rows, fo_friend, fo_game,
                   fo_now, fo_fails, fo_tried, fo_delivered, tg_pc, tg_list, tg_stats>>

----------------------------------------------------------------------------
(* SteamTaskService.monitor_friends: the job.                              *)

MaxFriends == 2

\* dao.get_all_bindings: the rows, in whatever order the store returns them.
Orderings(S) ==
    {w \in [1..Cardinality(S) -> S] : \A i, j \in 1..Cardinality(S) : i # j => w[i] # w[j]}

\* A friends entry of GetFriendList is given by its steamid key, which may
\* be missing.
FriendListInputs(s) ==
    UNION {[1..n -> {<<f>> : f \in PlatformFriends(s)} \cup {<<>>}] : n \in 0..MaxFriends}

\* The personastate and gameextrainfo keys of a player, each of which may
\* be missing: offline (with or without a remembered game), online or away
\* without a game, online in a game.
PresenceInputs ==
    {<< <<>>, <<>> >>, << <<0>>, <<>> >>, << <<0>>, <<"g1">> >>, << <<1>>, <<>> >>,
     << <<3>>, <<"">> >>, << <<1>>, <<"g1">> >>, << <<1>>, <<"g2">> >>}

\* A player of GetPlayerSummaries, every key of which may be missing; the
\* platform answers for the requested steamids.
PlayerInputs(ids) ==
    {[steamid |-> sid, personastate |-> pr[1], gameextrainfo |-> pr[2]] :
        sid \in {<<f>> : f \in ids} \cup {<<>>}, pr \in PresenceInputs}

\* Local times at which a notification may be fanned out.
NowInputs ==
    {[h |-> 23, m |-> 30, s |-> 0], [h |-> 0, m |-> 0, s |-> 0],
     [h |-> 6, m |-> 59, s |-> 0], [h |-> 7, m |-> 1, s |-> 0],
     [h |-> 22, m |-> 59, s |-> 0], [h |-> 12, m |-> 0, s |-> 0]}

NoEval ==
    [qq |-> "", fsid |-> "", prev |-> <<>>, state |-> 0, game |-> "",
     msg |-> "none", phase |-> "init", private |-> FALSE, tried |-> {}, delivered |-> {}]

\* The for loop over the bindings moves to its next binding, or the job
\* returns when none is left.
MF_NextBinding ==
    /\ mf_work' = Tail(mf_work)
    /\ mf_pc' = IF Tail(mf_work) = <<>> THEN "idle" ELSE "friendlist"
    /\ mf_end' = IF Tail(mf_work) = <<>> THEN "completed" ELSE mf_end
    /\ mf_ids' = {}
    /\ mf_left' = 0
    /\ mf_prefs' = <<>>

\* A variant that asks for the summary of each player by itself.
MF_NextPlayerFetch ==
    IF mf_left = 1
    THEN MF_NextBinding
    ELSE /\ mf_left' = mf_left - 1
         /\ mf_pc' = "summaries"
         /\ UNCHANGED <<mf_work, mf_ids, mf_prefs, mf_end>>

\* The for loop over the players moves on.
MF_NextPlayer ==
    IF mf_left = 1
    THEN MF_NextBinding
    ELSE /\ mf_left' = mf_left - 1
         /\ mf_pc' = "eval"
         /\ UNCHANGED <<mf_work, mf_ids, mf_prefs, mf_end>>

\* except Exception at the job's outer boundary: the invocation ends; the
\* bindings it had not finished stay in mf_work.
MF_Abort(cause) ==
    /\ mf_pc' = "idle"
    /\ mf_end' = cause
    /\ mf_ids' = {}
    /\ mf_left' = 0
    /\ mf_prefs' = <<>>
    /\ UNCHANGED mf_work

\* The scheduler starts an invocation: get_all_bindings.
MF_Start ==
    /\ mf_pc = "idle"
    /\ \E w \in Orderings(bindings) :
        /\ mf_work' = w
        /\ mf_pc' = IF Len(w) = 0 THEN "idle" ELSE "friendlist"
        /\ mf_end' = IF Len(w) = 0 THEN "completed" ELSE "running"
    /\ UNCHANGED <<bindings, friend_status, notify_prefs, mf_ids, mf_left, mf_prefs, mf_last>>
    /\ UNCHANGED <<newsVars, dealVars, statsVars, clientVars, schedVars, cmdVars, pureVars>>

\* request(GetFriendList) returns or raises; steamids are collected.
MF_FriendList ==
    /\ mf_pc = "friendlist"
    /\ \E kind \in FetchKind, body \in FriendListInputs(Head(mf_work)[2]) :
        LET friends == RequestResult(kind, body, <<>>)
        IN  IF RequestRaises(kind)
            THEN MF_Abort("friendlist_error")
            ELSE IF \E i \in 1..Len(friends) : friends[i] = <<>>
            THEN MF_Abort("key_error")
            ELSE IF Len(friends) = 0
            THEN MF_NextBinding
            ELSE /\ mf_pc' = "summaries"
                 /\ mf_ids' = {friends[i][1] : i \in 1..Len(friends)}
                 /\ UNCHANGED <<mf_work, mf_left, mf_prefs, mf_end>>
    /\ UNCHANGED <<bindings, friend_status, notify_prefs, mf_last>>
    /\ UNCHANGED <<newsVars, dealVars, statsVars, clientVars, schedVars, cmdVars, pureVars>>

\* request(GetPlayerSummaries) for all steamids at once returns or raises;
\* get_notify_prefs is read.
MF_Summaries ==
    /\ mf_pc = "summaries"
    /\ \E kind \in FetchKind, n \in 0..MaxPlayers :
        IF RequestRaises(kind)
        THEN MF_Abort("summaries_error")
        ELSE IF RequestResult(kind, n, 0) = 0
        THEN MF_NextBinding
        ELSE /\ mf_pc' = "eval"
             /\ mf_left' = n
             /\ mf_prefs' = notify_prefs[Head(mf_work)[1]]
             /\ UNCHANGED <<mf_work, mf_ids, mf_end>>
    /\ UNCHANGED <<bindings, friend_status, notify_prefs, mf_last>>
    /\ UNCHANGED <<newsVars, dealVars, statsVars, clientVars, schedVars, cmdVars, pureVars>>

\* One iteration of the loop over the players, up to its first await: the
\* stored row is read and compared; without a notification the row is
\* updated at once.
MF_Eval ==
    /\ mf_pc = "eval"
    /\ \E p \in PlayerInputs(mf_ids) :
        IF p.steamid = <<>>
        THEN /\ MF_Abort("key_error")
             /\ UNCHANGED <<friend_status, mf_last>>
        ELSE LET qq == Head(mf_work)[1]
                 fsid == p.steamid[1]
                 state == Get(p.personastate, 0)
                 game == Get(p.gameextrainfo, "")
                 old == friend_status[<<qq, fsid>>]
                 ev == [qq |-> qq, fsid |-> fsid, prev |-> old, state |-> state,
                        game |-> game, msg |-> FriendNotice(old, state, game),
                        phase |-> "sending", private |-> FALSE, tried |-> {},
                        delivered |-> {}]
             IN  IF ev.msg # "none"
                 THEN /\ mf_pc' = "send_user"
                      /\ mf_last' = ev
                      /\ UNCHANGED <<friend_status, mf_work, mf_ids, mf_left, mf_prefs, mf_end>>
                 ELSE /\ friend_status' = UpdateFriendStatus(friend_status, qq, fsid, state, game)
                      /\ mf_last' = [ev EXCEPT !.phase = "stored"]
                      /\ MF_NextPlayer
    /\ UNCHANGED <<bindings, notify_prefs>>
    /\ UNCHANGED <<newsVars, dealVars, statsVars, clientVars, schedVars, cmdVars, pureVars>>

\* A variant that sends the private message only when some group
\* preference lets the message through.
MF_SendUserFiltered ==
    /\ mf_pc = "send_user"
    /\ \E out \in SendOutcome, now \in NowInputs, fails \in SUBSET Group :
        LET tried == GroupsTried(mf_prefs, mf_last.fsid, mf_last.game, now)
        IN  IF out = "raise" /\ tried # {}
            THEN /\ MF_Abort("dispatch_error")
                 /\ mf_last' = [mf_last EXCEPT !.phase = "raised"]
                 /\ UNCHANGED friend_status
            ELSE /\ mf_last' = [mf_last EXCEPT !.phase = "stored", !.private = tried # {},
                                               !.tried = tried,
                                               !.delivered = GroupsDelivered(mf_prefs,
                                                   mf_last.fsid, mf_last.game, now, fails)]
                 /\ friend_status' = UpdateFriendStatus(friend_status, mf_last.qq,
                                         mf_last.fsid, mf_last.state, mf_last.game)
                 /\ MF_NextPlayer
    /\ UNCHANGED <<bindings, notify_prefs>>
    /\ UNCHANGED <<newsVars, dealVars, statsVars, clientVars, schedVars, cmdVars, pureVars>>

\* send_to_user returns or raises; after it the group fan-out runs (a
\* failing group is logged and skipped) and the row is updated.
MF_SendUser ==
    /\ mf_pc = "send_user"
    /\ \E out \in SendOutcome, now \in NowInputs, fails \in SUBSET Group :
        IF out = "raise"
        THEN /\ MF_Abort("dispatch_error")
             /\ mf_last' = [mf_last EXCEPT !.phase = "raised"]
             /\ UNCHANGED friend_status
        ELSE LET tried == GroupsTried(mf_prefs, mf_last.fsid, mf_last.game, now)
             IN  /\ mf_last' = [mf_last EXCEPT !.phase = "stored", !.private = TRUE,
                                               !.tried = tried,
                                               !.delivered = GroupsDelivered(mf_prefs,
                                                   mf_last.fsid, mf_last.game, now, fails)]
                 /\ friend_status' = UpdateFriendStatus(friend_status, mf_last.qq,
                                         mf_last.fsid, mf_last.state, mf_last.game)
                 /\ MF_NextPlayer
    /\ UNCHANGED <<bindings, notify_prefs>>
    /\ UNCHANGED <<newsVars, dealVars, statsVars, clientVars, schedVars, cmdVars, pureVars>>

\* A stored preference with only_game and a mute window over midnight.
QuietCfg ==
    [ok |-> TRUE, only_game |-> TRUE, friends |-> {},
     mute |-> << <<[h |-> 23, m |-> 0], [h |-> 7, m |-> 0]>> >>]

----------------------------------------------------------------------------
(* SteamDAO: subscriptions and news history.                               *)

App == {10, 20}

\* item.get("gid", ""): the ids news items are keyed by.
NewsId == {"n1", ""}

\* get_game_subscriptions(news_only=True): WHERE news=1
NewsSubscriptions(tbl) ==
    {k \in User \X App : tbl[k] # <<>> /\ tbl[k][1]}

\* get_deals_subscriptions: WHERE deals=1
DealsSubscriptions(tbl) ==
    {k \in User \X App : tbl[k] # <<>> /\ tbl[k][2]}

\* check_news_sent: row[0] if row else None
CheckNewsSent(tbl, appid, news_id) == tbl[<<appid, news_id>>]

\* "if not exists": None and a false sent flag are both falsy.
NotExists(exists) == exists = <<>> \/ ~exists[1]

\* A variant with the UPDATE branch only, which leaves an unseen item
\* without a row.
MarkNewsSentUpdateOnly(tbl, appid, news_id, sent) ==
    IF tbl[<<appid, news_id>>] = <<>> THEN tbl
    ELSE [tbl EXCEPT ![<<appid, news_id>>] = <<sent>>]

\* mark_news_sent: INSERT when check_news_sent is None, else UPDATE.
MarkNewsSent(tbl, appid, news_id, sent) ==
    [tbl EXCEPT ![<<appid, news_id>>] = <<sent>>]

----------------------------------------------------------------------------
(* SteamTaskService.check_game_news: the job.                              *)

MaxItems == 2

\* A news item: its gid key may be missing; contents is what the platform
\* currently serves for it.
NewsItemInputs == [gid : {<<"n1">>, <<>>}, contents : {"c1", "c2"}]

NoNews ==
    [qq |-> "", appid |-> 0, news_id |-> "", contents |-> "", had_row |-> FALSE,
     sent |-> FALSE, phase |-> "init"]

CN_NextSubscription ==
    /\ cn_work' = Tail(cn_work)
    /\ cn_pc' = IF Tail(cn_work) = <<>> THEN "idle" ELSE "news"
    /\ cn_end' = IF Tail(cn_work) = <<>> THEN "completed" ELSE cn_end
    /\ cn_left' = 0

CN_NextItem ==
    IF cn_left = 1
    THEN CN_NextSubscription
    ELSE /\ cn_left' = cn_left - 1
         /\ cn_pc' = "item"
         /\ UNCHANGED <<cn_work, cn_end>>

CN_Abort(cause) ==
    /\ cn_pc' = "idle"
    /\ cn_end' = cause
    /\ cn_left' = 0
    /\ UNCHANGED cn_work

\* The scheduler starts an invocation: get_game_subscriptions(news_only=True).
CN_Start ==
    /\ cn_pc = "idle"
    /\ \E w \in Orderings(NewsSubscriptions(game_subscriptions)) :
        /\ cn_work' = w
        /\ cn_pc' = IF Len(w) = 0 THEN "idle" ELSE "news"
        /\ cn_end' = IF Len(w) = 0 THEN "completed" ELSE "running"
    /\ cmd_last' = IF cmd_last.event = "subscribe"
                    THEN [cmd_last EXCEPT !.news_started = TRUE] ELSE cmd_last
    /\ UNCHANGED <<game_subscriptions, news_history, cn_left, cn_last, news_notified, news_again, news_told>>
    /\ UNCHANGED <<friendVars, dealVars, statsVars, clientVars, schedVars, clock, pureVars>>

\* get_news_for_app returns or raises.
CN_News ==
    /\ cn_pc = "news"
    /\ \E kind \in FetchKind, n \in 0..MaxItems :
        IF RequestRaises(kind)
        THEN CN_Abort("news_error")
        ELSE IF RequestResult(kind, n, 0) = 0
        THEN CN_NextSubscription
        ELSE /\ cn_pc' = "details"
             /\ cn_left' = n
             /\ UNCHANGED <<cn_work, cn_end>>
    /\ UNCHANGED <<game_subscriptions, news_history, cn_last, news_notified, news_again, news_told>>
    /\ UNCHANGED <<friendVars, dealVars, statsVars, clientVars, schedVars, cmdVars, pureVars>>

\* get_game_details returns (the name, or its default) or raises.
CN_Details ==
    /\ cn_pc = "details"
    /\ \E kind \in FetchKind :
        IF RequestRaises(kind)
        THEN CN_Abort("details_error")
        ELSE /\ cn_pc' = "item"
             /\ UNCHANGED <<cn_work, cn_left, cn_end>>
    /\ UNCHANGED <<game_subscriptions, news_history, cn_last, news_notified, news_again, news_told>>
    /\ UNCHANGED <<friendVars, dealVars, statsVars, clientVars, schedVars, cmdVars, pureVars>>

\* One iteration of the loop over the news items, up to its await.
CN_Item ==
    /\ cn_pc = "item"
    /\ \E item \in NewsItemInputs :
        LET qq == Head(cn_work)[1]
            appid == Head(cn_work)[2]
            news_id == Get(item.gid, "")
            exists == CheckNewsSent(news_history, appid, news_id)
            ev == [qq |-> qq, appid |-> appid, news_id |-> news_id,
                   contents |-> item.contents, had_row |-> exists # <<>>,
                   sent |-> NotExists(exists), phase |-> "sending"]
        IN  IF NotExists(exists)
            THEN /\ cn_pc' = "send"
                 /\ cn_last' = ev
                 /\ news_again' = (news_again \/ news_notified[<<appid, news_id>>] # "")
                 /\ UNCHANGED <<cn_work, cn_left, cn_end>>
            ELSE /\ cn_last' = [ev EXCEPT !.phase = "skipped"]
                 /\ UNCHANGED news_again
                 /\ CN_NextItem
    /\ UNCHANGED <<game_subscriptions, news_history, news_notified, news_told>>
    /\ UNCHANGED <<friendVars, dealVars, statsVars, clientVars, schedVars, cmdVars, pureVars>>

\* A variant that marks the item as sent before the dispatch.
CN_SendMarkFirst ==
    /\ cn_pc = "send"
    /\ news_history' = MarkNewsSent(news_history, cn_last.appid, cn_last.news_id, TRUE)
    /\ \E out \in SendOutcome :
        IF out = "raise"
        THEN /\ CN_Abort("dispatch_error")
             /\ cn_last' = [cn_last EXCEPT !.phase = "raised"]
             /\ UNCHANGED <<news_notified, news_told>>
        ELSE /\ news_notified' =
                    IF news_notified[<<cn_last.appid, cn_last.news_id>>] = ""
                    THEN [news_notified EXCEPT ![<<cn_last.appid, cn_last.news_id>>] = cn_last.contents]
                    ELSE news_notified
             /\ news_told' = news_told \cup {<<cn_last.qq, cn_last.appid, cn_last.news_id>>}
             /\ cn_last' = [cn_last EXCEPT !.phase = "stored"]
             /\ CN_NextItem
    /\ UNCHANGED <<game_subscriptions, news_again>>
    /\ UNCHANGED <<friendVars, dealVars, statsVars, clientVars, schedVars, cmdVars, pureVars>>

\* send_to_user returns or raises; after it the item is marked as sent.
CN_Send ==
    /\ cn_pc = "send"
    /\ \E out \in SendOutcome :
        IF out = "raise"
        THEN /\ CN_Abort("dispatch_error")
             /\ cn_last' = [cn_last EXCEPT !.phase = "raised"]
             /\ UNCHANGED <<news_history, news_notified, news_told>>
        ELSE /\ news_history' = MarkNewsSent(news_history, cn_last.appid, cn_last.news_id, TRUE)
             /\ news_notified' =
                    IF news_notified[<<cn_last.appid, cn_last.news_id>>] = ""
                    THEN [news_notified EXCEPT ![<<cn_last.appid, cn_last.news_id>>] = cn_last.contents]
                    ELSE news_notified
             /\ news_told' = news_told \cup {<<cn_last.qq, cn_last.appid, cn_last.news_id>>}
             /\ cn_last' = [cn_last EXCEPT !.phase = "stored"]
             /\ CN_NextItem
    /\ UNCHANGED <<game_subscriptions, news_again>>
    /\ UNCHANGED <<friendVars, dealVars, statsVars, clientVars, schedVars, cmdVars, pureVars>>

----------------------------------------------------------------------------
(* SteamTaskService.check_game_discounts: discount pass.                   *)

\* The id of a specials entry as JSON gives it: a number, a string of its
\* digits, or None when the key is missing.
IntId(n) == <<"int", n>>
StrId(n) == <<"str", n>>

\* The specials of one featured response, by the ids of their entries.
SpecialsInputs == SUBSET {IntId(10), StrId(10), IntId(20), StrId(20), <<"none", 0>>}

\* str(appid) in discount_map, whose keys are the ids as the entries give
\* them.
InDiscountMap(appid, keys) == StrId(appid) \in keys

\* The game appid is one of the specials: an entry carries its id.
Listed(appid, specials) == IntId(appid) \in specials \/ StrId(appid) \in specials

NoDeal ==
    [qq |-> "", appid |-> 0, listed |-> FALSE, sent |-> FALSE, phase |-> "init"]

CD_Abort(cause) ==
    /\ cd_pc' = "idle"
    /\ cd_end' = cause
    /\ cd_map' = {}

\* The scheduler starts an invocation: get_deals_subscriptions.
CD_Start ==
    /\ cd_pc = "idle"
    /\ \E w \in Orderings(DealsSubscriptions(game_subscriptions)) : cd_subs' = w
    /\ cd_pc' = "featured"
    /\ cd_end' = "running"
    /\ cd_watches' = <<>>
    /\ UNCHANGED <<market_watches, cd_map, cd_deal, cd_last, obs_fired>>
    /\ UNCHANGED <<friendVars, newsVars, statsVars, clientVars, schedVars, cmdVars, pureVars>>

\* get_featured_games returns or raises; the lookup table is built.
CD_Featured ==
    /\ cd_pc = "featured"
    /\ \E kind \in FetchKind, specials \in SpecialsInputs :
        IF RequestRaises(kind)
        THEN CD_Abort("featured_error")
        ELSE /\ cd_map' = IF cd_subs = <<>> THEN {}
                         ELSE RequestResult(kind, specials, {})
             /\ cd_pc' = IF cd_subs = <<>> THEN "watches" ELSE "deals"
             /\ UNCHANGED cd_end
    /\ UNCHANGED <<market_watches, cd_subs, cd_deal, cd_watches, cd_last, obs_fired>>
    /\ UNCHANGED <<friendVars, newsVars, statsVars, clientVars, schedVars, cmdVars, pureVars>>

\* One iteration of the loop over the deals subscriptions; when the game is
\* in the lookup table send_to_user returns or raises.
CD_Deal ==
    /\ cd_pc = "deals"
    /\ \E out \in SendOutcome :
        LET sub == Head(cd_subs)
            ev == [qq |-> sub[1], appid |-> sub[2], listed |-> Listed(sub[2], cd_map),
                   sent |-> FALSE, phase |-> "raised"]
        IN  IF InDiscountMap(sub[2], cd_map) /\ out = "raise"
            THEN /\ CD_Abort("dispatch_error")
                 /\ cd_deal' = ev
                 /\ UNCHANGED cd_subs
            ELSE /\ cd_deal' = [ev EXCEPT !.sent = InDiscountMap(sub[2], cd_map),
                                          !.phase = "done"]
                 /\ cd_subs' = Tail(cd_subs)
                 /\ cd_pc' = IF Tail(cd_subs) = <<>> THEN "watches" ELSE "deals"
                 /\ cd_map' = IF Tail(cd_subs) = <<>> THEN {} ELSE cd_map
                 /\ UNCHANGED cd_end
    /\ UNCHANGED <<market_watches, cd_watches, cd_last, obs_fired>>
    /\ UNCHANGED <<friendVars, newsVars, statsVars, clientVars, schedVars, cmdVars, pureVars>>

----------------------------------------------------------------------------
(* SteamTaskService.check_game_discounts: price-watch pass.                *)

WatchId == {1, 2}

\* price_alert_threshold, when the configuration does not set it.
PriceAlertThreshold == 15

\* The observations the edge-trigger example feeds to one watch.
PriceScript == <<120, 90, 80, 95, 85>>

\* The answer of priceoverview: success and lowest_price may be missing;
\* lowest_price is a text that float() parses to v, or does not parse.
PriceDataInputs ==
    {[success |-> <<>>, lowest_price |-> <<[parses |-> TRUE, v |-> 90]>>],
     [success |-> <<FALSE>>, lowest_price |-> <<[parses |-> TRUE, v |-> 90]>>],
     [success |-> <<TRUE>>, lowest_price |-> <<>>],
     [success |-> <<TRUE>>, lowest_price |-> <<[parses |-> FALSE, v |-> 0]>>]}
    \cup {[success |-> <<TRUE>>, lowest_price |-> <<[parses |-> TRUE, v |-> v]>>] : v \in {80, 85, 90, 95, 120}}

\* lines 143-154: the price the pass goes on with, or none when it skips.
CurrentPrice(price_data) ==
    IF ~Get(price_data.success, FALSE) THEN <<>>
    ELSE IF price_data.lowest_price = <<>> THEN <<>>
    ELSE IF ~price_data.lowest_price[1].parses THEN <<>>
    ELSE <<price_data.lowest_price[1].v>>

\* A variant that never records the observed price.
KeepMarketPrice(tbl, watch_id, current_price, now) == tbl

\* A variant that records the price but not the time.
UpdateMarketPriceOnly(tbl, watch_id, current_price, now) ==
    IF tbl[watch_id] = <<>> THEN tbl
    ELSE [tbl EXCEPT ![watch_id] = <<[tbl[watch_id][1] EXCEPT !.last_price = <<current_price>>]>>]

\* update_market_price: UPDATE market_watches SET last_price=?, last_check=?
\* WHERE id=?, with int(time.time()) for last_check.
UpdateMarketPrice(tbl, watch_id, current_price, now) ==
    IF tbl[watch_id] = <<>> THEN tbl
    ELSE [tbl EXCEPT ![watch_id] = <<[tbl[watch_id][1] EXCEPT !.last_price = <<current_price>>,
                                                               !.last_check = now]>>]

\* A level-triggered variant of the target test.
TargetReachedLevel(current_price, desired_price, last_price) ==
    current_price <= desired_price

\* line 160
TargetReached(current_price, desired_price, last_price) ==
    /\ current_price <= desired_price
    /\ (last_price = <<>> \/ last_price[1] > desired_price)

\* lines 166-173: abs(current - last) / last * 100 >= price_threshold
LargeChange(current_price, last_price, threshold) ==
    /\ last_price # <<>>
    /\ last_price[1] > 0
    /\ (IF current_price < last_price[1] THEN last_price[1] - current_price
                                          ELSE current_price - last_price[1]) * 100
            >= threshold * last_price[1]

\* get_market_watches: the rows (with their id), in whatever order.
WatchRows(tbl) == {[id |-> i, row |-> tbl[i][1]] : i \in {j \in WatchId : tbl[j] # <<>>}}

NoWatch ==
    [id |-> 0, current |-> <<>>, last_price |-> <<>>, desired_price |-> 0,
     target |-> FALSE, change |-> FALSE, phase |-> "init", at |-> 0]

\* The observations of watch 1 so far follow PriceScript: record the next.
Observe(obs, watch_id, current_price, target) ==
    IF watch_id # 1 \/ ~obs.on \/ Len(obs.fired) = Len(PriceScript) THEN obs
    ELSE IF current_price = PriceScript[Len(obs.fired) + 1]
    THEN [obs EXCEPT !.fired = Append(obs.fired, target)]
    ELSE [obs EXCEPT !.on = FALSE]

CD_NextWatch ==
    /\ cd_watches' = Tail(cd_watches)
    /\ cd_pc' = IF Tail(cd_watches) = <<>> THEN "idle" ELSE "price"
    /\ cd_end' = IF Tail(cd_watches) = <<>> THEN "completed" ELSE cd_end
    /\ UNCHANGED cd_map

\* get_market_watches
CD_Watches ==
    /\ cd_pc = "watches"
    /\ \E w \in Orderings(WatchRows(market_watches)) :
        /\ cd_watches' = w
        /\ cd_pc' = IF Len(w) = 0 THEN "idle" ELSE "price"
        /\ cd_end' = IF Len(w) = 0 THEN "completed" ELSE cd_end
    /\ UNCHANGED <<market_watches, cd_subs, cd_map, cd_deal, cd_last, obs_fired>>
    /\ UNCHANGED <<friendVars, newsVars, statsVars, clientVars, schedVars, cmdVars, pureVars>>

\* One iteration of the loop over the watches: get_market_price returns or
\* raises, the stored price is updated, and each of the two notifications,
\* when due, is sent and returns or raises.
CD_Price ==
    /\ cd_pc = "price"
    /\ \E kind \in FetchKind, body \in PriceDataInputs, out1 \in SendOutcome, out2 \in SendOutcome :
        LET w == Head(cd_watches)
            cur == CurrentPrice(RequestResult(kind, body,
                                    [success |-> <<>>, lowest_price |-> <<>>]))
            target == TargetReached(cur[1], w.row.desired_price, w.row.last_price)
            change == LargeChange(cur[1], w.row.last_price, PriceAlertThreshold)
            ev == [id |-> w.id, current |-> cur, last_price |-> w.row.last_price,
                   desired_price |-> w.row.desired_price, target |-> FALSE,
                   change |-> FALSE, phase |-> "skipped", at |-> clock]
        IN  IF RequestRaises(kind)
            THEN /\ CD_Abort("price_error")
                 /\ UNCHANGED <<market_watches, cd_watches, cd_last, obs_fired>>
            ELSE IF cur = <<>>
            THEN /\ cd_last' = ev
                 /\ CD_NextWatch
                 /\ UNCHANGED <<market_watches, obs_fired>>
            ELSE /\ market_watches' = UpdateMarketPrice(market_watches, w.id, cur[1], clock)
                 /\ obs_fired' = Observe(obs_fired, w.id, cur[1], target)
                 /\ IF target /\ out1 = "raise"
                    THEN /\ cd_last' = [ev EXCEPT !.target = TRUE, !.phase = "raised"]
                         /\ CD_Abort("dispatch_error")
                         /\ UNCHANGED cd_watches
                    ELSE IF change /\ out2 = "raise"
                    THEN /\ cd_last' = [ev EXCEPT !.target = target, !.change = TRUE,
                                                  !.phase = "raised"]
                         /\ CD_Abort("dispatch_error")
                         /\ UNCHANGED cd_watches
                    ELSE /\ cd_last' = [ev EXCEPT !.target = target, !.change = change,
                                                  !.phase = "stored"]
                         /\ CD_NextWatch
    /\ UNCHANGED <<cd_subs, cd_deal>>
    /\ UNCHANGED <<friendVars, newsVars, statsVars, clientVars, schedVars, cmdVars, pureVars>>

----------------------------------------------------------------------------
(* SteamTaskService.generate_library_stats.                                *)

MaxDay == 3

\* [:20] of the snapshot's game list.
TopN == 20

\* The games of one GetOwnedGames answer, each <<appid, playtime_forever>>
\* with playtime_forever in minutes; an appid occurs once.
LibraryInputs ==
    {lib \in SUBSET {<<10, 600>>, <<10, 720>>, <<20, 0>>, <<20, 180>>} :
        \A a, b \in lib : a[1] = b[1] => a = b}

\* playtime_forever / 60; exact on the whole-hour inputs above.
Hours(playtime_forever) == playtime_forever \div 60

RECURSIVE SumOver(_, _)
SumOver(f, S) ==
    IF S = {} THEN 0
    ELSE LET x == CHOOSE y \in S : TRUE
         IN  f[x] + SumOver(f, S \ {x})

\* yesterday_games.get(appid, 0), yesterday_games built from the snapshot.
PreviousPlaytime(yesterday_games, appid) ==
    IF \E g \in yesterday_games : g[1] = appid
    THEN (CHOOSE g \in yesterday_games : g[1] = appid)[2]
    ELSE 0

\* A variant that counts only the games yesterday's snapshot knows.
DailyPlaytimeKnown(games, yesterday_stats) ==
    IF yesterday_stats = <<>> THEN 0
    ELSE SumOver([g \in games |->
                    IF /\ \E y \in yesterday_stats[1].games : y[1] = g[1]
                       /\ Hours(g[2]) > PreviousPlaytime(yesterday_stats[1].games, g[1])
                    THEN Hours(g[2]) - PreviousPlaytime(yesterday_stats[1].games, g[1])
                    ELSE 0], games)

\* lines 198-210
DailyPlaytime(games, yesterday_stats) ==
    IF yesterday_stats = <<>> THEN 0
    ELSE SumOver([g \in games |->
                    IF Hours(g[2]) > PreviousPlaytime(yesterday_stats[1].games, g[1])
                    THEN Hours(g[2]) - PreviousPlaytime(yesterday_stats[1].games, g[1])
                    ELSE 0], games)

\* sorted(games, key=playtime_forever, reverse=True)[:20], as <<appid, hours>>
TopGames(games) ==
    LET n == IF Cardinality(games) < TopN THEN Cardinality(games) ELSE TopN
        top == CHOOSE S \in SUBSET games :
                   /\ Cardinality(S) = n
                   /\ \A a \in S, b \in games \ S : a[2] >= b[2]
    IN  {<<g[1], Hours(g[2])>> : g \in top}

\* lines 213-225
Stats(games, yesterday_stats) ==
    [total_games |-> Cardinality(games),
     total_playtime |-> Hours(SumOver([g \in games |-> g[2]], games)),
     daily_playtime |-> DailyPlaytime(games, yesterday_stats),
     games |-> TopGames(games)]

\* A variant that falls back to the snapshot of the day before date.
GetLibraryStatsLatest(tbl, qq, date) ==
    IF date \in 1..MaxDay /\ tbl[<<qq, date>>] # <<>> THEN tbl[<<qq, date>>]
    ELSE IF date - 1 \in 1..MaxDay THEN tbl[<<qq, date - 1>>]
    ELSE <<>>

\* SteamDAO.get_library_stats(qq_id, date): the row, or none.
GetLibraryStats(tbl, qq, date) == IF date \in 1..MaxDay THEN tbl[<<qq, date>>] ELSE <<>>

\* SteamDAO.save_library_stats: INSERT OR REPLACE
SaveLibraryStats(tbl, qq, date, stats) == [tbl EXCEPT ![<<qq, date>>] = <<stats>>]

\* A variant without the skip of an empty games list.
NoGamesNever(games) == FALSE

\* lines 192-193: "if not games: continue"
NoGames(games) == games = {}

NoLibrary ==
    [qq |-> "", day |-> 0, games |-> {}, yesterday |-> <<>>, phase |-> "init"]

\* Midnight passes.
DayPasses ==
    /\ today < MaxDay
    /\ today' = today + 1
    /\ UNCHANGED <<library_stats, gl_pc, gl_work, gl_day, gl_last, gl_end>>
    /\ UNCHANGED <<friendVars, newsVars, dealVars, clientVars, schedVars, cmdVars, pureVars>>

\* The scheduler starts an invocation: today and yesterday are computed and
\* the bindings are read.
GL_Start ==
    /\ gl_pc = "idle"
    /\ \E w \in Orderings(bindings) : gl_work' = w
    /\ gl_day' = today
    /\ gl_pc' = IF bindings = {} THEN "idle" ELSE "binding"
    /\ gl_end' = IF bindings = {} THEN "completed" ELSE "running"
    /\ UNCHANGED <<library_stats, today, gl_last>>
    /\ UNCHANGED <<friendVars, newsVars, dealVars, clientVars, schedVars, cmdVars, pureVars>>

\* One iteration of the loop over the bindings: get_owned_games returns or
\* raises; an empty library is skipped; else the snapshot is computed
\* against yesterday's and saved.
GL_Binding ==
    /\ gl_pc = "binding"
    /\ \E kind \in FetchKind, body \in LibraryInputs :
        LET qq == Head(gl_work)[1]
            games == RequestResult(kind, body, {})
            yesterday_stats == GetLibraryStats(library_stats, qq, gl_day - 1)
        IN  IF RequestRaises(kind)
            THEN /\ gl_pc' = "idle"
                 /\ gl_end' = "library_error"
                 /\ UNCHANGED <<library_stats, gl_work, gl_last>>
            ELSE /\ IF NoGames(games)
                    THEN /\ gl_last' = [qq |-> qq, day |-> gl_day, games |-> {},
                                        yesterday |-> <<>>, phase |-> "skipped"]
                         /\ UNCHANGED library_stats
                    ELSE /\ gl_last' = [qq |-> qq, day |-> gl_day, games |-> games,
                                        yesterday |-> yesterday_stats, phase |-> "saved"]
                         /\ library_stats' = SaveLibraryStats(library_stats, qq, gl_day,
                                                 Stats(games, yesterday_stats))
                 /\ gl_work' = Tail(gl_work)
                 /\ gl_pc' = IF Tail(gl_work) = <<>> THEN "idle" ELSE "binding"
                 /\ gl_end' = IF Tail(gl_work) = <<>> THEN "completed" ELSE gl_end
    /\ UNCHANGED <<today, gl_day>>
    /\ UNCHANGED <<friendVars, newsVars, dealVars, clientVars, schedVars, cmdVars, pureVars>>

----------------------------------------------------------------------------
(* NotificationService._is_muted_time as a function of its inputs.         *)

MaxRanges == 2

\* Entries of a "mute" preference: a window that wraps past midnight, a
\* window within one day, an entry without "-", an entry whose hour does
\* not parse.
MuteRangeInputs ==
    {<<[h |-> 23, m |-> 0], [h |-> 7, m |-> 0]>>,
     <<[h |-> 9, m |-> 0], [h |-> 17, m |-> 0]>>,
     <<[h |-> 23, m |-> 0]>>,
     <<[h |-> 25, m |-> 0], [h |-> 7, m |-> 0]>>}

MuteListInputs == UNION {[1..n -> MuteRangeInputs] : n \in 0..MaxRanges}

\* _is_muted_time(mute_ranges) is called at the local time mt_now.
MT_Call ==
    /\ mt_pc = "ready"
    /\ mt_result' = IsMutedTime(mt_ranges, mt_now)
    /\ mt_pc' = "done"
    /\ UNCHANGED <<mt_now, mt_ranges>>
    /\ UNCHANGED <<friendVars, newsVars, dealVars, statsVars, clientVars, schedVars, cmdVars,
                   fo_pc, fo_rows, fo_friend, fo_game, fo_now, fo_fails, fo_tried,
                   fo_delivered, uf_pc, uf_rows, uf_arg, uf_once, uf_twice, tg_pc, tg_list,
                   tg_stats>>

----------------------------------------------------------------------------
(* SchedulerManager: the four jobs under the scheduler.                    *)

Job == {"monitor_friends", "check_game_news", "check_game_discounts",
        "generate_library_stats"}

\* add_job is called without max_instances: the scheduler's default of one
\* running instance per job applies.
MaxInstances == 1

\* A variant without the limit.
CanSubmitAlways(instances) == TRUE

\* The scheduler submits a due job unless its instances are at the limit.
CanSubmit(instances) == instances < MaxInstances

\* A variant in which the timer outlives shutdown.
FiresAlways(state) == state # "created" /\ state # "initialized"

\* The scheduler fires triggers from start() until shutdown().
Fires(state) == state = "running"

\* What the body of a job can raise: the timeout a fetch method lets
\* through, a missing key of a response, a value of another type than
\* expected, a failing send function, a failing database call.
JobErrorInputs == {"TimeoutError", "KeyError", "AttributeError", "SendError", "DatabaseError"}

\* A variant of the jobs' handler that catches one class only.
CatchesKeyError(error) == error = "KeyError"

\* except Exception around the whole body of each job: every exception
\* class but the BaseException-only ones.
JobCatches(error) == error \notin {"CancelledError", "KeyboardInterrupt", "SystemExit"}

NoTrigger == [job |-> "", event |-> "none", wait |-> FALSE]

\* setup_tasks: the four jobs are added.
SM_SetupTasks ==
    /\ sc_state = "created"
    /\ sc_state' = "initialized"
    /\ UNCHANGED <<sc_inflight, sc_end, sc_escaped, sc_last, session, unload>>
    /\ UNCHANGED <<friendVars, newsVars, dealVars, statsVars, clientVars, cmdVars, pureVars>>

\* start: a warning and nothing else before setup_tasks.
SM_Start ==
    /\ sc_state \in {"created", "initialized"}
    /\ sc_state' = IF sc_state = "initialized" THEN "running" ELSE sc_state
    /\ sc_last' = [job |-> "", event |-> "start", wait |-> FALSE]
    /\ UNCHANGED <<sc_inflight, sc_end, sc_escaped, session, unload>>
    /\ UNCHANGED <<friendVars, newsVars, dealVars, statsVars, clientVars, cmdVars, pureVars>>

\* A trigger of a job is due: a new invocation is started, or skipped when
\* the job is at its instance limit.
SC_Trigger ==
    /\ Fires(sc_state)
    /\ \E job \in Job :
        IF CanSubmit(sc_inflight[job])
        THEN /\ sc_inflight' = [sc_inflight EXCEPT ![job] = @ + 1]
             /\ sc_last' = [job |-> job, event |-> "started", wait |-> FALSE]
        ELSE /\ sc_last' = [job |-> job, event |-> "skipped", wait |-> FALSE]
             /\ UNCHANGED sc_inflight
    /\ UNCHANGED <<sc_state, sc_end, sc_escaped, session, unload>>
    /\ UNCHANGED <<friendVars, newsVars, dealVars, statsVars, clientVars, cmdVars, pureVars>>

\* An invocation in flight ends: its body ran to the end, or raised and the
\* job's handler logged the error, or the error left the job function.
SC_Finish ==
    /\ \E job \in {j \in Job : sc_inflight[j] > 0}, how \in {"completed"} \cup JobErrorInputs :
        /\ sc_inflight' = [sc_inflight EXCEPT ![job] = @ - 1]
        /\ sc_end' = [sc_end EXCEPT ![job] =
                         IF how = "completed" THEN "completed"
                         ELSE IF JobCatches(how) THEN "failed" ELSE "escaped"]
        /\ sc_escaped' = (sc_escaped \/ (how # "completed" /\ ~JobCatches(how)))
    /\ UNCHANGED <<sc_state, sc_last, session, unload>>
    /\ UNCHANGED <<friendVars, newsVars, dealVars, statsVars, clientVars, cmdVars, pureVars>>

\* shutdown(wait): nothing unless the scheduler runs; with wait it returns
\* once the invocations in flight have ended, else at once.
SM_Shutdown ==
    /\ sc_state = "running"
    /\ \E wait \in BOOLEAN :
        /\ sc_state' = IF wait /\ (\E j \in Job : sc_inflight[j] > 0)
                       THEN "stopping" ELSE "stopped"
        /\ sc_last' = [job |-> "", event |-> "shutdown", wait |-> wait]
    /\ UNCHANGED <<sc_inflight, sc_end, sc_escaped, session, unload>>
    /\ UNCHANGED <<friendVars, newsVars, dealVars, statsVars, clientVars, cmdVars, pureVars>>

\* shutdown(wait=True) returns.
SM_ShutdownReturns ==
    /\ sc_state = "stopping"
    /\ \A j \in Job : sc_inflight[j] = 0
    /\ sc_state' = "stopped"
    /\ sc_last' = [job |-> "", event |-> "shutdown_returned", wait |-> TRUE]
    /\ UNCHANGED <<sc_inflight, sc_end, sc_escaped, session, unload>>
    /\ UNCHANGED <<friendVars, newsVars, dealVars, statsVars, clientVars, cmdVars, pureVars>>

\* An invocation in flight comes to a fetch: _get_session creates a
\* session when there is none or when the one it holds is closed.
SC_Fetch ==
    /\ \E job \in Job : sc_inflight[job] > 0
    /\ session' = IF session \in {"none", "closed"} THEN "open" ELSE session
    /\ UNCHANGED <<sc_state, sc_inflight, sc_end, sc_escaped, sc_last, unload>>
    /\ UNCHANGED <<friendVars, newsVars, dealVars, statsVars, clientVars, cmdVars, pureVars>>

\* on_unload: shutdown(wait=False), then the close of the client is handed
\* to the event loop as a task.
OnUnload ==
    /\ unload = "loaded"
    /\ unload' = "closing"
    /\ sc_state' = IF sc_state = "running" THEN "stopped" ELSE sc_state
    /\ sc_last' = IF sc_state = "running"
                  THEN [job |-> "", event |-> "shutdown", wait |-> FALSE] ELSE sc_last
    /\ UNCHANGED <<sc_inflight, sc_end, sc_escaped, session>>
    /\ UNCHANGED <<friendVars, newsVars, dealVars, statsVars, clientVars, cmdVars, pureVars>>

\* SteamAPIClient.close, run by the task of on_unload: an open session is
\* closed.
CL_Close ==
    /\ unload = "closing"
    /\ unload' = "unloaded"
    /\ session' = IF session = "open" THEN "closed" ELSE session
    /\ UNCHANGED <<sc_state, sc_inflight, sc_end, sc_escaped, sc_last>>
    /\ UNCHANGED <<friendVars, newsVars, dealVars, statsVars, clientVars, cmdVars, pureVars>>

----------------------------------------------------------------------------
(* SteamCommandHandlers: the commands that change what the jobs work on.   *)

MaxClock == 3

\* The last command: who sent it, the id (of a watch or a game) it names,
\* the flags it carries, and whether check_game_news has started since.
NoCmd ==
    [event |-> "none", qq |-> "", id |-> 0, news |-> FALSE, deals |-> FALSE,
     news_started |-> FALSE]

\* Time passes between two calls of int(time.time()).
ClockTicks ==
    /\ clock < MaxClock
    /\ clock' = clock + 1
    /\ UNCHANGED <<friendVars, newsVars, dealVars, statsVars, clientVars, schedVars, cmd_last,
                   pureVars>>

\* A variant that deletes by id alone.
RemoveMarketWatchById(tbl, watch_id, qq_id) ==
    [tbl EXCEPT ![watch_id] = <<>>]

\* remove_market_watch: DELETE FROM market_watches WHERE id=? AND qq_id=?
RemoveMarketWatch(tbl, watch_id, qq_id) ==
    [tbl EXCEPT ![watch_id] = IF @ # <<>> /\ @[1].qq = qq_id THEN <<>> ELSE @]

\* handle_market, action "unwatch": the sender names a watch id.
MK_Unwatch ==
    /\ \E qq \in User, watch_id \in WatchId :
        /\ market_watches' = RemoveMarketWatch(market_watches, watch_id, qq)
        /\ cmd_last' = [NoCmd EXCEPT !.event = "unwatch", !.qq = qq, !.id = watch_id]
    /\ UNCHANGED <<cd_pc, cd_subs, cd_map, cd_deal, cd_watches, cd_last, cd_end, obs_fired>>
    /\ UNCHANGED <<friendVars, newsVars, statsVars, clientVars, schedVars, clock, pureVars>>

\* A variant that keeps the row a pair already has (INSERT OR IGNORE).
SubscribeGameIgnore(tbl, qq_id, appid, news, deals) ==
    [tbl EXCEPT ![<<qq_id, appid>>] = IF @ = <<>> THEN <<news, deals>> ELSE @]

\* subscribe_game: INSERT OR REPLACE INTO game_subscriptions (qq_id, appid,
\* news, deals)
SubscribeGame(tbl, qq_id, appid, news, deals) ==
    [tbl EXCEPT ![<<qq_id, appid>>] = <<news, deals>>]

\* handle_subscribe, action "add", sent by u1 for game 10: get_game_details
\* returns (with or without the game's data) or raises; only when the game
\* was found is the row written, with the flags of the command (each
\* value.lower() == "true" of its option, True without the option).
SB_Subscribe ==
    /\ \E kind \in FetchKind, found \in BOOLEAN :
        IF RequestRaises(kind) \/ ~RequestResult(kind, found, FALSE)
        THEN /\ cmd_last' = [NoCmd EXCEPT !.event = "not_subscribed", !.qq = "u1", !.id = 10]
             /\ UNCHANGED game_subscriptions
        ELSE \E news \in BOOLEAN, deals \in BOOLEAN :
             /\ game_subscriptions' = SubscribeGame(game_subscriptions, "u1", 10, news, deals)
             /\ cmd_last' = [NoCmd EXCEPT !.event = "subscribe", !.qq = "u1", !.id = 10,
                                          !.news = news, !.deals = deals]
    /\ UNCHANGED <<news_history, cn_pc, cn_work, cn_left, cn_last, cn_end, news_notified,
                   news_again, news_told>>
    /\ UNCHANGED <<friendVars, dealVars, statsVars, clientVars, schedVars, clock, pureVars>>

----------------------------------------------------------------------------
(* The snapshot of generate_library_stats as a function of the games list. *)

MaxLibrary == 23

\* The games of one GetOwnedGames answer in the order of the answer, each
\* <<appid, playtime_forever>>: the i-th game has appid i and a playtime of
\* ((i * a + b) % m) hours, which gives lists that ascend, descend, are
\* constant, are shuffled, or are full of ties, of every length up to
\* MaxLibrary.
GamesListInputs ==
    {[i \in 1..n |-> <<i, ((i * ab[1] + ab[2]) % m) * 60>>] :
        n \in 0..MaxLibrary, ab \in {0, 1, 7, 22} \X {0, 1}, m \in {5, 23}}

\* sorted() is stable: a game goes behind the games that have at least its
\* playtime.
RECURSIVE InsertByPlaytime(_, _)
InsertByPlaytime(sorted, g) ==
    IF sorted = <<>> THEN <<g>>
    ELSE IF Head(sorted)[2] >= g[2]
    THEN <<Head(sorted)>> \o InsertByPlaytime(Tail(sorted), g)
    ELSE <<g>> \o sorted

\* sorted(games, key=lambda x: x.get("playtime_forever", 0), reverse=True)
RECURSIVE SortedByPlaytime(_)
SortedByPlaytime(games) ==
    IF games = <<>> THEN <<>>
    ELSE InsertByPlaytime(SortedByPlaytime(SubSeq(games, 1, Len(games) - 1)),
                          games[Len(games)])

\* A variant that cuts the list as the platform gave it.
TopGamesUnsorted(games) ==
    SubSeq(games, 1, IF Len(games) < TopN THEN Len(games) ELSE TopN)

\* sorted(...)[:20]
TopGamesList(games) ==
    SubSeq(SortedByPlaytime(games), 1, IF Len(games) < TopN THEN Len(games) ELSE TopN)

RECURSIVE SumPlaytime(_)
SumPlaytime(games) ==
    IF games = <<>> THEN 0 ELSE Head(games)[2] + SumPlaytime(Tail(games))

\* lines 198-210 over the games list: yesterday_games is built from the
\* games the snapshot of yesterday lists, and a game it does not list
\* counts from 0.
RECURSIVE DailyPlaytimeList(_, _)
DailyPlaytimeList(games, yesterday_stats) ==
    IF yesterday_stats = <<>> \/ games = <<>> THEN 0
    ELSE LET yesterday_data == yesterday_stats[1].games
             yesterday_games == {yesterday_data[i] : i \in 1..Len(yesterday_data)}
             current_playtime == Hours(Head(games)[2])
             previous_playtime == PreviousPlaytime(yesterday_games, Head(games)[1])
         IN  (IF current_playtime > previous_playtime
              THEN current_playtime - previous_playtime ELSE 0)
             + DailyPlaytimeList(Tail(games), yesterday_stats)

\* lines 213-225: the counts over games, the delta against yesterday's
\* snapshot and the entries <<appid, playtime>> of the cut list.
LibrarySnapshot(games, yesterday_stats) ==
    [total_games |-> Len(games),
     total_playtime |-> Hours(SumPlaytime(games)),
     daily_playtime |-> DailyPlaytimeList(games, yesterday_stats),
     games |-> [i \in 1..Len(TopGamesList(games)) |->
                  <<TopGamesList(games)[i][1], Hours(TopGamesList(games)[i][2])>>]]

\* The snapshot of one games list is computed, against the snapshot the
\* run of the day before made of the same list.
TG_Apply ==
    /\ tg_pc = "input"
    /\ tg_stats' = LibrarySnapshot(tg_list, <<LibrarySnapshot(tg_list, <<>>)>>)
    /\ tg_pc' = "done"
    /\ UNCHANGED tg_list
    /\ UNCHANGED <<friendVars, newsVars, dealVars, statsVars, clientVars, schedVars, cmdVars,
                   mt_pc, mt_now, mt_ranges, mt_result, fo_pc, fo_rows, fo_friend, fo_game,
                   fo_now, fo_fails, fo_tried, fo_delivered, uf_pc, uf_rows, uf_arg, uf_once,
                   uf_twice>>

----------------------------------------------------------------------------
(* Specifications: one per job, each from the tables it works on.          *)

\* Both users are bound; u1 has one group preference; no friend row yet.
InitFriends ==
    /\ bindings = {<<u, SteamIdOf(u)>> : u \in User}
    /\ friend_status = [k \in User \X Friend |-> <<>>]
    /\ notify_prefs = [u \in User |->
            IF u = "u1"
            THEN << <<"grpA", QuietCfg>>,
                    <<"grpB", [ok |-> TRUE, only_game |-> FALSE, friends |-> {"f2"},
                               mute |-> <<>>]>> >>
            ELSE <<>>]
    /\ mf_pc = "idle"
    /\ mf_work = <<>>
    /\ mf_ids = {}
    /\ mf_left = 0
    /\ mf_prefs = <<>>
    /\ mf_last = NoEval
    /\ mf_end = "never"
    /\ game_subscriptions = [k \in User \X App |-> <<>>]
    /\ news_history = [k \in App \X NewsId |-> <<>>]
    /\ cn_pc = "idle"
    /\ cn_work = <<>>
    /\ cn_left = 0
    /\ cn_last = NoNews
    /\ cn_end = "never"
    /\ news_notified = [k \in App \X NewsId |-> ""]
    /\ news_again = FALSE
    /\ news_told = {}
    /\ market_watches = [i \in WatchId |-> <<>>]
    /\ cd_pc = "idle"
    /\ cd_subs = <<>>
    /\ cd_map = {}
    /\ cd_deal = NoDeal
    /\ cd_watches = <<>>
    /\ cd_last = NoWatch
    /\ cd_end = "never"
    /\ obs_fired = [on |-> TRUE, fired |-> <<>>]
    /\ library_stats = [k \in User \X (1..MaxDay) |-> <<>>]
    /\ today = 1
    /\ gl_pc = "idle"
    /\ gl_work = <<>>
    /\ gl_day = 1
    /\ gl_last = NoLibrary
    /\ gl_end = "never"
    /\ mt_pc = "off"
    /\ mt_now = [h |-> 0, m |-> 0, s |-> 0]
    /\ mt_ranges = <<>>
    /\ mt_result = FALSE
    /\ cl_method = "request"
    /\ cl_ticks = 0
    /\ cl_platform = "a"
    /\ cl_cache = <<>>
    /\ cl_inner = <<>>
    /\ cl_last = NoCall
    /\ sc_state = "created"
    /\ sc_inflight = [j \in Job |-> 0]
    /\ sc_end = [j \in Job |-> "never"]
    /\ sc_escaped = FALSE
    /\ sc_last = NoTrigger
    /\ session = "none"
    /\ unload = "loaded"
    /\ fo_pc = "off"
    /\ fo_rows = <<>>
    /\ fo_friend = "f1"
    /\ fo_game = ""
    /\ fo_now = [h |-> 0, m |-> 0, s |-> 0]
    /\ fo_fails = {}
    /\ fo_tried = {}
    /\ fo_delivered = {}
    /\ clock = 1
    /\ cmd_last = NoCmd
    /\ uf_pc = "off"
    /\ uf_rows = <<>>
    /\ uf_arg = <<"u1", "f1", 0, "">>
    /\ uf_once = <<>>
    /\ uf_twice = <<>>
    /\ tg_pc = "off"
    /\ tg_list = <<>>
    /\ tg_stats = LibrarySnapshot(<<>>, <<>>)

NextFriends ==
    \/ MF_Start
    \/ MF_FriendList
    \/ MF_Summaries
    \/ MF_Eval
    \/ MF_SendUser

\* monitor_friends, invoked again and again.
SpecFriends == InitFriends /\ [][NextFriends]_vars

\* Both users subscribe to the news of game 10; nothing was sent yet.
InitNews ==
    /\ bindings = {}
    /\ friend_status = [k \in User \X Friend |-> <<>>]
    /\ notify_prefs = [u \in User |-> <<>>]
    /\ mf_pc = "idle"
    /\ mf_work = <<>>
    /\ mf_ids = {}
    /\ mf_left = 0
    /\ mf_prefs = <<>>
    /\ mf_last = NoEval
    /\ mf_end = "never"
    /\ game_subscriptions = [k \in User \X App |-> IF k[2] = 10 THEN <<TRUE, FALSE>> ELSE <<>>]
    /\ news_history = [k \in App \X NewsId |-> <<>>]
    /\ cn_pc = "idle"
    /\ cn_work = <<>>
    /\ cn_left = 0
    /\ cn_last = NoNews
    /\ cn_end = "never"
    /\ news_notified = [k \in App \X NewsId |-> ""]
    /\ news_again = FALSE
    /\ news_told = {}
    /\ market_watches = [i \in WatchId |-> <<>>]
    /\ cd_pc = "idle"
    /\ cd_subs = <<>>
    /\ cd_map = {}
    /\ cd_deal = NoDeal
    /\ cd_watches = <<>>
    /\ cd_last = NoWatch
    /\ cd_end = "never"
    /\ obs_fired = [on |-> TRUE, fired |-> <<>>]
    /\ library_stats = [k \in User \X (1..MaxDay) |-> <<>>]
    /\ today = 1
    /\ gl_pc = "idle"
    /\ gl_work = <<>>
    /\ gl_day = 1
    /\ gl_last = NoLibrary
    /\ gl_end = "never"
    /\ mt_pc = "off"
    /\ mt_now = [h |-> 0, m |-> 0, s |-> 0]
    /\ mt_ranges = <<>>
    /\ mt_result = FALSE
    /\ cl_method = "request"
    /\ cl_ticks = 0
    /\ cl_platform = "a"
    /\ cl_cache = <<>>
    /\ cl_inner = <<>>
    /\ cl_last = NoCall
    /\ sc_state = "created"
    /\ sc_inflight = [j \in Job |-> 0]
    /\ sc_end = [j \in Job |-> "never"]
    /\ sc_escaped = FALSE
    /\ sc_last = NoTrigger
    /\ session = "none"
    /\ unload = "loaded"
    /\ fo_pc = "off"
    /\ fo_rows = <<>>
    /\ fo_friend = "f1"
    /\ fo_game = ""
    /\ fo_now = [h |-> 0, m |-> 0, s |-> 0]
    /\ fo_fails = {}
    /\ fo_tried = {}
    /\ fo_delivered = {}
    /\ clock = 1
    /\ cmd_last = NoCmd
    /\ uf_pc = "off"
    /\ uf_rows = <<>>
    /\ uf_arg = <<"u1", "f1", 0, "">>
    /\ uf_once = <<>>
    /\ uf_twice = <<>>
    /\ tg_pc = "off"
    /\ tg_list = <<>>
    /\ tg_stats = LibrarySnapshot(<<>>, <<>>)

NextNews ==
    \/ CN_Start
    \/ CN_News
    \/ CN_Details
    \/ CN_Item
    \/ CN_Send

\* check_game_news, invoked again and again.
SpecNews == InitNews /\ [][NextNews]_vars

\* u1 subscribes to the deals of game 10 and u2 to those of game 20; u2
\* follows game 10 for news only; there is no price watch.
InitDiscount ==
    /\ bindings = {}
    /\ friend_status = [k \in User \X Friend |-> <<>>]
    /\ notify_prefs = [u \in User |-> <<>>]
    /\ mf_pc = "idle"
    /\ mf_work = <<>>
    /\ mf_ids = {}
    /\ mf_left = 0
    /\ mf_prefs = <<>>
    /\ mf_last = NoEval
    /\ mf_end = "never"
    /\ game_subscriptions = [k \in User \X App |->
            IF k = <<"u1", 10>> \/ k = <<"u2", 20>> THEN <<FALSE, TRUE>>
            ELSE IF k = <<"u2", 10>> THEN <<TRUE, FALSE>> ELSE <<>>]
    /\ news_history = [k \in App \X NewsId |-> <<>>]
    /\ cn_pc = "idle"
    /\ cn_work = <<>>
    /\ cn_left = 0
    /\ cn_last = NoNews
    /\ cn_end = "never"
    /\ news_notified = [k \in App \X NewsId |-> ""]
    /\ news_again = FALSE
    /\ news_told = {}
    /\ market_watches = [i \in WatchId |-> <<>>]
    /\ cd_pc = "idle"
    /\ cd_subs = <<>>
    /\ cd_map = {}
    /\ cd_deal = NoDeal
    /\ cd_watches = <<>>
    /\ cd_last = NoWatch
    /\ cd_end = "never"
    /\ obs_fired = [on |-> TRUE, fired |-> <<>>]
    /\ library_stats = [k \in User \X (1..MaxDay) |-> <<>>]
    /\ today = 1
    /\ gl_pc = "idle"
    /\ gl_work = <<>>
    /\ gl_day = 1
    /\ gl_last = NoLibrary
    /\ gl_end = "never"
    /\ mt_pc = "off"
    /\ mt_now = [h |-> 0, m |-> 0, s |-> 0]
    /\ mt_ranges = <<>>
    /\ mt_result = FALSE
    /\ cl_method = "request"
    /\ cl_ticks = 0
    /\ cl_platform = "a"
    /\ cl_cache = <<>>
    /\ cl_inner = <<>>
    /\ cl_last = NoCall
    /\ sc_state = "created"
    /\ sc_inflight = [j \in Job |-> 0]
    /\ sc_end = [j \in Job |-> "never"]
    /\ sc_escaped = FALSE
    /\ sc_last = NoTrigger
    /\ session = "none"
    /\ unload = "loaded"
    /\ fo_pc = "off"
    /\ fo_rows = <<>>
    /\ fo_friend = "f1"
    /\ fo_game = ""
    /\ fo_now = [h |-> 0, m |-> 0, s |-> 0]
    /\ fo_fails = {}
    /\ fo_tried = {}
    /\ fo_delivered = {}
    /\ clock = 1
    /\ cmd_last = NoCmd
    /\ uf_pc = "off"
    /\ uf_rows = <<>>
    /\ uf_arg = <<"u1", "f1", 0, "">>
    /\ uf_once = <<>>
    /\ uf_twice = <<>>
    /\ tg_pc = "off"
    /\ tg_list = <<>>
    /\ tg_stats = LibrarySnapshot(<<>>, <<>>)

NextDiscount ==
    \/ CD_Start
    \/ CD_Featured
    \/ CD_Deal
    \/ CD_Watches

\* check_game_discounts with deals subscriptions, invoked again and again.
SpecDiscount == InitDiscount /\ [][NextDiscount]_vars

\* One price watch as add_market_watch leaves it (no last price), with a
\* desired price of 100; there is no deals subscription.
InitPrice ==
    /\ bindings = {}
    /\ friend_status = [k \in User \X Friend |-> <<>>]
    /\ notify_prefs = [u \in User |-> <<>>]
    /\ mf_pc = "idle"
    /\ mf_work = <<>>
    /\ mf_ids = {}
    /\ mf_left = 0
    /\ mf_prefs = <<>>
    /\ mf_last = NoEval
    /\ mf_end = "never"
    /\ game_subscriptions = [k \in User \X App |-> <<>>]
    /\ news_history = [k \in App \X NewsId |-> <<>>]
    /\ cn_pc = "idle"
    /\ cn_work = <<>>
    /\ cn_left = 0
    /\ cn_last = NoNews
    /\ cn_end = "never"
    /\ news_notified = [k \in App \X NewsId |-> ""]
    /\ news_again = FALSE
    /\ news_told = {}
    /\ market_watches = [i \in WatchId |->
            <<[qq |-> IF i = 1 THEN "u1" ELSE "u2", appid |-> 10,
               desired_price |-> IF i = 1 THEN 100 ELSE 90, last_price |-> <<>>,
               last_check |-> 0]>>]
    /\ cd_pc = "idle"
    /\ cd_subs = <<>>
    /\ cd_map = {}
    /\ cd_deal = NoDeal
    /\ cd_watches = <<>>
    /\ cd_last = NoWatch
    /\ cd_end = "never"
    /\ obs_fired = [on |-> TRUE, fired |-> <<>>]
    /\ library_stats = [k \in User \X (1..MaxDay) |-> <<>>]
    /\ today = 1
    /\ gl_pc = "idle"
    /\ gl_work = <<>>
    /\ gl_day = 1
    /\ gl_last = NoLibrary
    /\ gl_end = "never"
    /\ mt_pc = "off"
    /\ mt_now = [h |-> 0, m |-> 0, s |-> 0]
    /\ mt_ranges = <<>>
    /\ mt_result = FALSE
    /\ cl_method = "request"
    /\ cl_ticks = 0
    /\ cl_platform = "a"
    /\ cl_cache = <<>>
    /\ cl_inner = <<>>
    /\ cl_last = NoCall
    /\ sc_state = "created"
    /\ sc_inflight = [j \in Job |-> 0]
    /\ sc_end = [j \in Job |-> "never"]
    /\ sc_escaped = FALSE
    /\ sc_last = NoTrigger
    /\ session = "none"
    /\ unload = "loaded"
    /\ fo_pc = "off"
    /\ fo_rows = <<>>
    /\ fo_friend = "f1"
    /\ fo_game = ""
    /\ fo_now = [h |-> 0, m |-> 0, s |-> 0]
    /\ fo_fails = {}
    /\ fo_tried = {}
    /\ fo_delivered = {}
    /\ clock = 1
    /\ cmd_last = NoCmd
    /\ uf_pc = "off"
    /\ uf_rows = <<>>
    /\ uf_arg = <<"u1", "f1", 0, "">>
    /\ uf_once = <<>>
    /\ uf_twice = <<>>
    /\ tg_pc = "off"
    /\ tg_list = <<>>
    /\ tg_stats = LibrarySnapshot(<<>>, <<>>)

NextPrice ==
    \/ CD_Start
    \/ CD_Featured
    \/ CD_Watches
    \/ CD_Price

\* check_game_discounts with price watches, invoked again and again.
SpecPrice == InitPrice /\ [][NextPrice]_vars

\* One user is bound; no snapshot yet.
InitStats ==
    /\ bindings = {<<"u1", SteamIdOf("u1")>>}
    /\ friend_status = [k \in User \X Friend |-> <<>>]
    /\ notify_prefs = [u \in User |-> <<>>]
    /\ mf_pc = "idle"
    /\ mf_work = <<>>
    /\ mf_ids = {}
    /\ mf_left = 0
    /\ mf_prefs = <<>>
    /\ mf_last = NoEval
    /\ mf_end = "never"
    /\ game_subscriptions = [k \in User \X App |-> <<>>]
    /\ news_history = [k \in App \X NewsId |-> <<>>]
    /\ cn_pc = "idle"
    /\ cn_work = <<>>
    /\ cn_left = 0
    /\ cn_last = NoNews
    /\ cn_end = "never"
    /\ news_notified = [k \in App \X NewsId |-> ""]
    /\ news_again = FALSE
    /\ news_told = {}
    /\ market_watches = [i \in WatchId |-> <<>>]
    /\ cd_pc = "idle"
    /\ cd_subs = <<>>
    /\ cd_map = {}
    /\ cd_deal = NoDeal
    /\ cd_watches = <<>>
    /\ cd_last = NoWatch
    /\ cd_end = "never"
    /\ obs_fired = [on |-> TRUE, fired |-> <<>>]
    /\ library_stats = [k \in User \X (1..MaxDay) |-> <<>>]
    /\ today = 1
    /\ gl_pc = "idle"
    /\ gl_work = <<>>
    /\ gl_day = 1
    /\ gl_last = NoLibrary
    /\ gl_end = "never"
    /\ mt_pc = "off"
    /\ mt_now = [h |-> 0, m |-> 0, s |-> 0]
    /\ mt_ranges = <<>>
    /\ mt_result = FALSE
    /\ cl_method = "request"
    /\ cl_ticks = 0
    /\ cl_platform = "a"
    /\ cl_cache = <<>>
    /\ cl_inner = <<>>
    /\ cl_last = NoCall
    /\ sc_state = "created"
    /\ sc_inflight = [j \in Job |-> 0]
    /\ sc_end = [j \in Job |-> "never"]
    /\ sc_escaped = FALSE
    /\ sc_last = NoTrigger
    /\ session = "none"
    /\ unload = "loaded"
    /\ fo_pc = "off"
    /\ fo_rows = <<>>
    /\ fo_friend = "f1"
    /\ fo_game = ""
    /\ fo_now = [h |-> 0, m |-> 0, s |-> 0]
    /\ fo_fails = {}
    /\ fo_tried = {}
    /\ fo_delivered = {}
    /\ clock = 1
    /\ cmd_last = NoCmd
    /\ uf_pc = "off"
    /\ uf_rows = <<>>
    /\ uf_arg = <<"u1", "f1", 0, "">>
    /\ uf_once = <<>>
    /\ uf_twice = <<>>
    /\ tg_pc = "off"
    /\ tg_list = <<>>
    /\ tg_stats = LibrarySnapshot(<<>>, <<>>)

NextStats ==
    \/ DayPasses
    \/ GL_Start
    \/ GL_Binding

\* generate_library_stats over the days.
SpecStats == InitStats /\ [][NextStats]_vars

\* Any argument, at any of the local times.
InitMute ==
    /\ bindings = {}
    /\ friend_status = [k \in User \X Friend |-> <<>>]
    /\ notify_prefs = [u \in User |-> <<>>]
    /\ mf_pc = "idle"
    /\ mf_work = <<>>
    /\ mf_ids = {}
    /\ mf_left = 0
    /\ mf_prefs = <<>>
    /\ mf_last = NoEval
    /\ mf_end = "never"
    /\ game_subscriptions = [k \in User \X App |-> <<>>]
    /\ news_history = [k \in App \X NewsId |-> <<>>]
    /\ cn_pc = "idle"
    /\ cn_work = <<>>
    /\ cn_left = 0
    /\ cn_last = NoNews
    /\ cn_end = "never"
    /\ news_notified = [k \in App \X NewsId |-> ""]
    /\ news_again = FALSE
    /\ news_told = {}
    /\ market_watches = [i \in WatchId |-> <<>>]
    /\ cd_pc = "idle"
    /\ cd_subs = <<>>
    /\ cd_map = {}
    /\ cd_deal = NoDeal
    /\ cd_watches = <<>>
    /\ cd_last = NoWatch
    /\ cd_end = "never"
    /\ obs_fired = [on |-> TRUE, fired |-> <<>>]
    /\ library_stats = [k \in User \X (1..MaxDay) |-> <<>>]
    /\ today = 1
    /\ gl_pc = "idle"
    /\ gl_work = <<>>
    /\ gl_day = 1
    /\ gl_last = NoLibrary
    /\ gl_end = "never"
    /\ mt_pc = "ready"
    /\ mt_now \in NowInputs
    /\ mt_ranges \in MuteListInputs
    /\ mt_result = FALSE
    /\ cl_method = "request"
    /\ cl_ticks = 0
    /\ cl_platform = "a"
    /\ cl_cache = <<>>
    /\ cl_inner = <<>>
    /\ cl_last = NoCall
    /\ sc_state = "created"
    /\ sc_inflight = [j \in Job |-> 0]
    /\ sc_end = [j \in Job |-> "never"]
    /\ sc_escaped = FALSE
    /\ sc_last = NoTrigger
    /\ session = "none"
    /\ unload = "loaded"
    /\ fo_pc = "off"
    /\ fo_rows = <<>>
    /\ fo_friend = "f1"
    /\ fo_game = ""
    /\ fo_now = [h |-> 0, m |-> 0, s |-> 0]
    /\ fo_fails = {}
    /\ fo_tried = {}
    /\ fo_delivered = {}
    /\ clock = 1
    /\ cmd_last = NoCmd
    /\ uf_pc = "off"
    /\ uf_rows = <<>>
    /\ uf_arg = <<"u1", "f1", 0, "">>
    /\ uf_once = <<>>
    /\ uf_twice = <<>>
    /\ tg_pc = "off"
    /\ tg_list = <<>>
    /\ tg_stats = LibrarySnapshot(<<>>, <<>>)

\* _is_muted_time applied to its inputs.
SpecMute == InitMute /\ [][MT_Call]_vars

\* A new client: nothing cached; any of the methods is the one called.
InitClient ==
    /\ bindings = {}
    /\ friend_status = [k \in User \X Friend |-> <<>>]
    /\ notify_prefs = [u \in User |-> <<>>]
    /\ mf_pc = "idle"
    /\ mf_work = <<>>
    /\ mf_ids = {}
    /\ mf_left = 0
    /\ mf_prefs = <<>>
    /\ mf_last = NoEval
    /\ mf_end = "never"
    /\ game_subscriptions = [k \in User \X App |-> <<>>]
    /\ news_history = [k \in App \X NewsId |-> <<>>]
    /\ cn_pc = "idle"
    /\ cn_work = <<>>
    /\ cn_left = 0
    /\ cn_last = NoNews
    /\ cn_end = "never"
    /\ news_notified = [k \in App \X NewsId |-> ""]
    /\ news_again = FALSE
    /\ news_told = {}
    /\ market_watches = [i \in WatchId |-> <<>>]
    /\ cd_pc = "idle"
    /\ cd_subs = <<>>
    /\ cd_map = {}
    /\ cd_deal = NoDeal
    /\ cd_watches = <<>>
    /\ cd_last = NoWatch
    /\ cd_end = "never"
    /\ obs_fired = [on |-> TRUE, fired |-> <<>>]
    /\ library_stats = [k \in User \X (1..MaxDay) |-> <<>>]
    /\ today = 1
    /\ gl_pc = "idle"
    /\ gl_work = <<>>
    /\ gl_day = 1
    /\ gl_last = NoLibrary
    /\ gl_end = "never"
    /\ mt_pc = "off"
    /\ mt_now = [h |-> 0, m |-> 0, s |-> 0]
    /\ mt_ranges = <<>>
    /\ mt_result = FALSE
    /\ cl_method \in Method
    /\ cl_ticks = 0
    /\ cl_platform \in Answer
    /\ cl_cache = <<>>
    /\ cl_inner = <<>>
    /\ cl_last = NoCall
    /\ sc_state = "created"
    /\ sc_inflight = [j \in Job |-> 0]
    /\ sc_end = [j \in Job |-> "never"]
    /\ sc_escaped = FALSE
    /\ sc_last = NoTrigger
    /\ session = "none"
    /\ unload = "loaded"
    /\ fo_pc = "off"
    /\ fo_rows = <<>>
    /\ fo_friend = "f1"
    /\ fo_game = ""
    /\ fo_now = [h |-> 0, m |-> 0, s |-> 0]
    /\ fo_fails = {}
    /\ fo_tried = {}
    /\ fo_delivered = {}
    /\ clock = 1
    /\ cmd_last = NoCmd
    /\ uf_pc = "off"
    /\ uf_rows = <<>>
    /\ uf_arg = <<"u1", "f1", 0, "">>
    /\ uf_once = <<>>
    /\ uf_twice = <<>>
    /\ tg_pc = "off"
    /\ tg_list = <<>>
    /\ tg_stats = LibrarySnapshot(<<>>, <<>>)

NextClient ==
    \/ CL_Call
    \/ CL_Tick
    \/ CL_Wait
    \/ CL_PlatformChanges

\* One fetch method called again and again over the check intervals.
SpecClient == InitClient /\ [][NextClient]_vars

\* Any stored preferences, friend, activity, local time and failing groups.
InitFanout ==
    /\ bindings = {}
    /\ friend_status = [k \in User \X Friend |-> <<>>]
    /\ notify_prefs = [u \in User |-> <<>>]
    /\ mf_pc = "idle"
    /\ mf_work = <<>>
    /\ mf_ids = {}
    /\ mf_left = 0
    /\ mf_prefs = <<>>
    /\ mf_last = NoEval
    /\ mf_end = "never"
    /\ game_subscriptions = [k \in User \X App |-> <<>>]
    /\ news_history = [k \in App \X NewsId |-> <<>>]
    /\ cn_pc = "idle"
    /\ cn_work = <<>>
    /\ cn_left = 0
    /\ cn_last = NoNews
    /\ cn_end = "never"
    /\ news_notified = [k \in App \X NewsId |-> ""]
    /\ news_again = FALSE
    /\ news_told = {}
    /\ market_watches = [i \in WatchId |-> <<>>]
    /\ cd_pc = "idle"
    /\ cd_subs = <<>>
    /\ cd_map = {}
    /\ cd_deal = NoDeal
    /\ cd_watches = <<>>
    /\ cd_last = NoWatch
    /\ cd_end = "never"
    /\ obs_fired = [on |-> TRUE, fired |-> <<>>]
    /\ library_stats = [k \in User \X (1..MaxDay) |-> <<>>]
    /\ today = 1
    /\ gl_pc = "idle"
    /\ gl_work = <<>>
    /\ gl_day = 1
    /\ gl_last = NoLibrary
    /\ gl_end = "never"
    /\ mt_pc = "off"
    /\ mt_now = [h |-> 0, m |-> 0, s |-> 0]
    /\ mt_ranges = <<>>
    /\ mt_result = FALSE
    /\ cl_method = "request"
    /\ cl_ticks = 0
    /\ cl_platform = "a"
    /\ cl_cache = <<>>
    /\ cl_inner = <<>>
    /\ cl_last = NoCall
    /\ sc_state = "created"
    /\ sc_inflight = [j \in Job |-> 0]
    /\ sc_end = [j \in Job |-> "never"]
    /\ sc_escaped = FALSE
    /\ sc_last = NoTrigger
    /\ session = "none"
    /\ unload = "loaded"
    /\ fo_pc = "ready"
    /\ fo_rows \in PrefsRowsInputs
    /\ fo_friend \in Friend
    /\ fo_game \in {"", "g1"}
    /\ fo_now \in NowInputs
    /\ fo_fails \in SUBSET Group
    /\ fo_tried = {}
    /\ fo_delivered = {}
    /\ clock = 1
    /\ cmd_last = NoCmd
    /\ uf_pc = "off"
    /\ uf_rows = <<>>
    /\ uf_arg = <<"u1", "f1", 0, "">>
    /\ uf_once = <<>>
    /\ uf_twice = <<>>
    /\ tg_pc = "off"
    /\ tg_list = <<>>
    /\ tg_stats = LibrarySnapshot(<<>>, <<>>)

\* _send_group_notifications applied to its inputs.
SpecFanout == InitFanout /\ [][FO_Send]_vars

\* SchedulerManager as constructed: no job added, not started.
InitScheduler ==
    /\ bindings = {}
    /\ friend_status = [k \in User \X Friend |-> <<>>]
    /\ notify_prefs = [u \in User |-> <<>>]
    /\ mf_pc = "idle"
    /\ mf_work = <<>>
    /\ mf_ids = {}
    /\ mf_left = 0
    /\ mf_prefs = <<>>
    /\ mf_last = NoEval
    /\ mf_end = "never"
    /\ game_subscriptions = [k \in User \X App |-> <<>>]
    /\ news_history = [k \in App \X NewsId |-> <<>>]
    /\ cn_pc = "idle"
    /\ cn_work = <<>>
    /\ cn_left = 0
    /\ cn_last = NoNews
    /\ cn_end = "never"
    /\ news_notified = [k \in App \X NewsId |-> ""]
    /\ news_again = FALSE
    /\ news_told = {}
    /\ market_watches = [i \in WatchId |-> <<>>]
    /\ cd_pc = "idle"
    /\ cd_subs = <<>>
    /\ cd_map = {}
    /\ cd_deal = NoDeal
    /\ cd_watches = <<>>
    /\ cd_last = NoWatch
    /\ cd_end = "never"
    /\ obs_fired = [on |-> TRUE, fired |-> <<>>]
    /\ library_stats = [k \in User \X (1..MaxDay) |-> <<>>]
    /\ today = 1
    /\ gl_pc = "idle"
    /\ gl_work = <<>>
    /\ gl_day = 1
    /\ gl_last = NoLibrary
    /\ gl_end = "never"
    /\ mt_pc = "off"
    /\ mt_now = [h |-> 0, m |-> 0, s |-> 0]
    /\ mt_ranges = <<>>
    /\ mt_result = FALSE
    /\ cl_method = "request"
    /\ cl_ticks = 0
    /\ cl_platform = "a"
    /\ cl_cache = <<>>
    /\ cl_inner = <<>>
    /\ cl_last = NoCall
    /\ sc_state = "created"
    /\ sc_inflight = [j \in Job |-> 0]
    /\ sc_end = [j \in Job |-> "never"]
    /\ sc_escaped = FALSE
    /\ sc_last = NoTrigger
    /\ session = "none"
    /\ unload = "loaded"
    /\ fo_pc = "off"
    /\ fo_rows = <<>>
    /\ fo_friend = "f1"
    /\ fo_game = ""
    /\ fo_now = [h |-> 0, m |-> 0, s |-> 0]
    /\ fo_fails = {}
    /\ fo_tried = {}
    /\ fo_delivered = {}
    /\ clock = 1
    /\ cmd_last = NoCmd
    /\ uf_pc = "off"
    /\ uf_rows = <<>>
    /\ uf_arg = <<"u1", "f1", 0, "">>
    /\ uf_once = <<>>
    /\ uf_twice = <<>>
    /\ tg_pc = "off"
    /\ tg_list = <<>>
    /\ tg_stats = LibrarySnapshot(<<>>, <<>>)

NextScheduler ==
    \/ SM_SetupTasks
    \/ SM_Start
    \/ SC_Trigger
    \/ SC_Finish
    \/ SM_Shutdown
    \/ SM_ShutdownReturns
    \/ SC_Fetch
    \/ OnUnload
    \/ CL_Close

\* The scheduler from on_load to on_unload.
SpecScheduler == InitScheduler /\ [][NextScheduler]_vars

\* One user is bound; a row is stored for the friend and a snapshot for today.
InitEmptyFetch ==
    /\ bindings = {<<"u1", SteamIdOf("u1")>>}
    /\ friend_status = [k \in User \X Friend |-> IF k = <<"u1", "f1">> THEN <<1, "g1">> ELSE <<>>]
    /\ notify_prefs = [u \in User |-> <<>>]
    /\ mf_pc = "idle"
    /\ mf_work = <<>>
    /\ mf_ids = {}
    /\ mf_left = 0
    /\ mf_prefs = <<>>
    /\ mf_last = NoEval
    /\ mf_end = "never"
    /\ game_subscriptions = [k \in User \X App |-> <<>>]
    /\ news_history = [k \in App \X NewsId |-> <<>>]
    /\ cn_pc = "idle"
    /\ cn_work = <<>>
    /\ cn_left = 0
    /\ cn_last = NoNews
    /\ cn_end = "never"
    /\ news_notified = [k \in App \X NewsId |-> ""]
    /\ news_again = FALSE
    /\ news_told = {}
    /\ market_watches = [i \in WatchId |-> <<>>]
    /\ cd_pc = "idle"
    /\ cd_subs = <<>>
    /\ cd_map = {}
    /\ cd_deal = NoDeal
    /\ cd_watches = <<>>
    /\ cd_last = NoWatch
    /\ cd_end = "never"
    /\ obs_fired = [on |-> TRUE, fired |-> <<>>]
    /\ library_stats = [k \in User \X (1..MaxDay) |->
            IF k = <<"u1", 1>> THEN <<Stats({<<10, 600>>}, <<>>)>> ELSE <<>>]
    /\ today = 1
    /\ gl_pc = "idle"
    /\ gl_work = <<>>
    /\ gl_day = 1
    /\ gl_last = NoLibrary
    /\ gl_end = "never"
    /\ mt_pc = "off"
    /\ mt_now = [h |-> 0, m |-> 0, s |-> 0]
    /\ mt_ranges = <<>>
    /\ mt_result = FALSE
    /\ cl_method = "request"
    /\ cl_ticks = 0
    /\ cl_platform = "a"
    /\ cl_cache = <<>>
    /\ cl_inner = <<>>
    /\ cl_last = NoCall
    /\ sc_state = "created"
    /\ sc_inflight = [j \in Job |-> 0]
    /\ sc_end = [j \in Job |-> "never"]
    /\ sc_escaped = FALSE
    /\ sc_last = NoTrigger
    /\ session = "none"
    /\ unload = "loaded"
    /\ fo_pc = "off"
    /\ fo_rows = <<>>
    /\ fo_friend = "f1"
    /\ fo_game = ""
    /\ fo_now = [h |-> 0, m |-> 0, s |-> 0]
    /\ fo_fails = {}
    /\ fo_tried = {}
    /\ fo_delivered = {}
    /\ clock = 1
    /\ cmd_last = NoCmd
    /\ uf_pc = "off"
    /\ uf_rows = <<>>
    /\ uf_arg = <<"u1", "f1", 0, "">>
    /\ uf_once = <<>>
    /\ uf_twice = <<>>
    /\ tg_pc = "off"
    /\ tg_list = <<>>
    /\ tg_stats = LibrarySnapshot(<<>>, <<>>)

NextEmptyFetch ==
    \/ MF_Start
    \/ MF_FriendList
    \/ MF_Summaries
    \/ MF_Eval
    \/ MF_SendUser
    \/ GL_Start
    \/ GL_Binding

\* monitor_friends and generate_library_stats over stored state.
SpecEmptyFetch == InitEmptyFetch /\ [][NextEmptyFetch]_vars

\* Any rows of friend_status, any arguments.
InitUpsert ==
    /\ bindings = {}
    /\ friend_status = [k \in User \X Friend |-> <<>>]
    /\ notify_prefs = [u \in User |-> <<>>]
    /\ mf_pc = "idle"
    /\ mf_work = <<>>
    /\ mf_ids = {}
    /\ mf_left = 0
    /\ mf_prefs = <<>>
    /\ mf_last = NoEval
    /\ mf_end = "never"
    /\ game_subscriptions = [k \in User \X App |-> <<>>]
    /\ news_history = [k \in App \X NewsId |-> <<>>]
    /\ cn_pc = "idle"
    /\ cn_work = <<>>
    /\ cn_left = 0
    /\ cn_last = NoNews
    /\ cn_end = "never"
    /\ news_notified = [k \in App \X NewsId |-> ""]
    /\ news_again = FALSE
    /\ news_told = {}
    /\ market_watches = [i \in WatchId |-> <<>>]
    /\ cd_pc = "idle"
    /\ cd_subs = <<>>
    /\ cd_map = {}
    /\ cd_deal = NoDeal
    /\ cd_watches = <<>>
    /\ cd_last = NoWatch
    /\ cd_end = "never"
    /\ obs_fired = [on |-> TRUE, fired |-> <<>>]
    /\ library_stats = [k \in User \X (1..MaxDay) |-> <<>>]
    /\ today = 1
    /\ gl_pc = "idle"
    /\ gl_work = <<>>
    /\ gl_day = 1
    /\ gl_last = NoLibrary
    /\ gl_end = "never"
    /\ mt_pc = "off"
    /\ mt_now = [h |-> 0, m |-> 0, s |-> 0]
    /\ mt_ranges = <<>>
    /\ mt_result = FALSE
    /\ cl_method = "request"
    /\ cl_ticks = 0
    /\ cl_platform = "a"
    /\ cl_cache = <<>>
    /\ cl_inner = <<>>
    /\ cl_last = NoCall
    /\ sc_state = "created"
    /\ sc_inflight = [j \in Job |-> 0]
    /\ sc_end = [j \in Job |-> "never"]
    /\ sc_escaped = FALSE
    /\ sc_last = NoTrigger
    /\ session = "none"
    /\ unload = "loaded"
    /\ fo_pc = "off"
    /\ fo_rows = <<>>
    /\ fo_friend = "f1"
    /\ fo_game = ""
    /\ fo_now = [h |-> 0, m |-> 0, s |-> 0]
    /\ fo_fails = {}
    /\ fo_tried = {}
    /\ fo_delivered = {}
    /\ clock = 1
    /\ cmd_last = NoCmd
    /\ uf_pc = "ready"
    /\ uf_rows \in FriendRowsInputs
    /\ uf_arg \in {<<k[1], k[2], v[1], v[2]>> : k \in User \X Friend, v \in StatusInputs}
    /\ uf_once = <<>>
    /\ uf_twice = <<>>
    /\ tg_pc = "off"
    /\ tg_list = <<>>
    /\ tg_stats = LibrarySnapshot(<<>>, <<>>)

\* update_friend_status applied to its inputs.
SpecUpsert == InitUpsert /\ [][UF_Apply]_vars

\* One watch, of u2, as add_market_watch left it at time 0 without a price;
\* no watch has the other id.
InitMarket ==
    /\ bindings = {}
    /\ friend_status = [k \in User \X Friend |-> <<>>]
    /\ notify_prefs = [u \in User |-> <<>>]
    /\ mf_pc = "idle"
    /\ mf_work = <<>>
    /\ mf_ids = {}
    /\ mf_left = 0
    /\ mf_prefs = <<>>
    /\ mf_last = NoEval
    /\ mf_end = "never"
    /\ game_subscriptions = [k \in User \X App |-> <<>>]
    /\ news_history = [k \in App \X NewsId |-> <<>>]
    /\ cn_pc = "idle"
    /\ cn_work = <<>>
    /\ cn_left = 0
    /\ cn_last = NoNews
    /\ cn_end = "never"
    /\ news_notified = [k \in App \X NewsId |-> ""]
    /\ news_again = FALSE
    /\ news_told = {}
    /\ market_watches = [i \in WatchId |->
            IF i = 2 THEN <<[qq |-> "u2", appid |-> 10, desired_price |-> 90,
                             last_price |-> <<>>, last_check |-> 0]>> ELSE <<>>]
    /\ cd_pc = "idle"
    /\ cd_subs = <<>>
    /\ cd_map = {}
    /\ cd_deal = NoDeal
    /\ cd_watches = <<>>
    /\ cd_last = NoWatch
    /\ cd_end = "never"
    /\ obs_fired = [on |-> TRUE, fired |-> <<>>]
    /\ library_stats = [k \in User \X (1..MaxDay) |-> <<>>]
    /\ today = 1
    /\ gl_pc = "idle"
    /\ gl_work = <<>>
    /\ gl_day = 1
    /\ gl_last = NoLibrary
    /\ gl_end = "never"
    /\ mt_pc = "off"
    /\ mt_now = [h |-> 0, m |-> 0, s |-> 0]
    /\ mt_ranges = <<>>
    /\ mt_result = FALSE
    /\ cl_method = "request"
    /\ cl_ticks = 0
    /\ cl_platform = "a"
    /\ cl_cache = <<>>
    /\ cl_inner = <<>>
    /\ cl_last = NoCall
    /\ sc_state = "created"
    /\ sc_inflight = [j \in Job |-> 0]
    /\ sc_end = [j \in Job |-> "never"]
    /\ sc_escaped = FALSE
    /\ sc_last = NoTrigger
    /\ session = "none"
    /\ unload = "loaded"
    /\ fo_pc = "off"
    /\ fo_rows = <<>>
    /\ fo_friend = "f1"
    /\ fo_game = ""
    /\ fo_now = [h |-> 0, m |-> 0, s |-> 0]
    /\ fo_fails = {}
    /\ fo_tried = {}
    /\ fo_delivered = {}
    /\ clock = 1
    /\ cmd_last = NoCmd
    /\ uf_pc = "off"
    /\ uf_rows = <<>>
    /\ uf_arg = <<"u1", "f1", 0, "">>
    /\ uf_once = <<>>
    /\ uf_twice = <<>>
    /\ tg_pc = "off"
    /\ tg_list = <<>>
    /\ tg_stats = LibrarySnapshot(<<>>, <<>>)

NextMarket ==
    \/ CD_Start
    \/ CD_Featured
    \/ CD_Watches
    \/ CD_Price
    \/ MK_Unwatch
    \/ ClockTicks

\* The price watches under check_game_discounts and the unwatch command,
\* over time.
SpecMarket == InitMarket /\ [][NextMarket]_vars

\* Both users follow game 10: u1 for news and deals, u2 for news only.
InitSubscribe ==
    /\ bindings = {}
    /\ friend_status = [k \in User \X Friend |-> <<>>]
    /\ notify_prefs = [u \in User |-> <<>>]
    /\ mf_pc = "idle"
    /\ mf_work = <<>>
    /\ mf_ids = {}
    /\ mf_left = 0
    /\ mf_prefs = <<>>
    /\ mf_last = NoEval
    /\ mf_end = "never"
    /\ game_subscriptions = [k \in User \X App |->
            IF k = <<"u1", 10>> THEN <<TRUE, TRUE>>
            ELSE IF k = <<"u2", 10>> THEN <<TRUE, FALSE>> ELSE <<>>]
    /\ news_history = [k \in App \X NewsId |-> <<>>]
    /\ cn_pc = "idle"
    /\ cn_work = <<>>
    /\ cn_left = 0
    /\ cn_last = NoNews
    /\ cn_end = "never"
    /\ news_notified = [k \in App \X NewsId |-> ""]
    /\ news_again = FALSE
    /\ news_told = {}
    /\ market_watches = [i \in WatchId |-> <<>>]
    /\ cd_pc = "idle"
    /\ cd_subs = <<>>
    /\ cd_map = {}
    /\ cd_deal = NoDeal
    /\ cd_watches = <<>>
    /\ cd_last = NoWatch
    /\ cd_end = "never"
    /\ obs_fired = [on |-> TRUE, fired |-> <<>>]
    /\ library_stats = [k \in User \X (1..MaxDay) |-> <<>>]
    /\ today = 1
    /\ gl_pc = "idle"
    /\ gl_work = <<>>
    /\ gl_day = 1
    /\ gl_last = NoLibrary
    /\ gl_end = "never"
    /\ mt_pc = "off"
    /\ mt_now = [h |-> 0, m |-> 0, s |-> 0]
    /\ mt_ranges = <<>>
    /\ mt_result = FALSE
    /\ cl_method = "request"
    /\ cl_ticks = 0
    /\ cl_platform = "a"
    /\ cl_cache = <<>>
    /\ cl_inner = <<>>
    /\ cl_last = NoCall
    /\ sc_state = "created"
    /\ sc_inflight = [j \in Job |-> 0]
    /\ sc_end = [j \in Job |-> "never"]
    /\ sc_escaped = FALSE
    /\ sc_last = NoTrigger
    /\ session = "none"
    /\ unload = "loaded"
    /\ fo_pc = "off"
    /\ fo_rows = <<>>
    /\ fo_friend = "f1"
    /\ fo_game = ""
    /\ fo_now = [h |-> 0, m |-> 0, s |-> 0]
    /\ fo_fails = {}
    /\ fo_tried = {}
    /\ fo_delivered = {}
    /\ clock = 1
    /\ cmd_last = NoCmd
    /\ uf_pc = "off"
    /\ uf_rows = <<>>
    /\ uf_arg = <<"u1", "f1", 0, "">>
    /\ uf_once = <<>>
    /\ uf_twice = <<>>
    /\ tg_pc = "off"
    /\ tg_list = <<>>
    /\ tg_stats = LibrarySnapshot(<<>>, <<>>)

NextSubscribe ==
    \/ SB_Subscribe
    \/ CN_Start
    \/ CN_News
    \/ CN_Details
    \/ CN_Item
    \/ CN_Send
    \/ CD_Start

\* check_game_news in full and check_game_discounts up to its read of the
\* deals subscriptions, the one place where it reads the flags, with u1
\* subscribing again at any moment.
SpecSubscribe == InitSubscribe /\ [][NextSubscribe]_vars

\* Any of the games lists, before its snapshot is computed.
InitTop ==
    /\ bindings = {}
    /\ friend_status = [k \in User \X Friend |-> <<>>]
    /\ notify_prefs = [u \in User |-> <<>>]
    /\ mf_pc = "idle"
    /\ mf_work = <<>>
    /\ mf_ids = {}
    /\ mf_left = 0
    /\ mf_prefs = <<>>
    /\ mf_last = NoEval
    /\ mf_end = "never"
    /\ game_subscriptions = [k \in User \X App |-> <<>>]
    /\ news_history = [k \in App \X NewsId |-> <<>>]
    /\ cn_pc = "idle"
    /\ cn_work = <<>>
    /\ cn_left = 0
    /\ cn_last = NoNews
    /\ cn_end = "never"
    /\ news_notified = [k \in App \X NewsId |-> ""]
    /\ news_again = FALSE
    /\ news_told = {}
    /\ market_watches = [i \in WatchId |-> <<>>]
    /\ cd_pc = "idle"
    /\ cd_subs = <<>>
    /\ cd_map = {}
    /\ cd_deal = NoDeal
    /\ cd_watches = <<>>
    /\ cd_last = NoWatch
    /\ cd_end = "never"
    /\ obs_fired = [on |-> TRUE, fired |-> <<>>]
    /\ library_stats = [k \in User \X (1..MaxDay) |-> <<>>]
    /\ today = 1
    /\ gl_pc = "idle"
    /\ gl_work = <<>>
    /\ gl_day = 1
    /\ gl_last = NoLibrary
    /\ gl_end = "never"
    /\ mt_pc = "off"
    /\ mt_now = [h |-> 0, m |-> 0, s |-> 0]
    /\ mt_ranges = <<>>
    /\ mt_result = FALSE
    /\ cl_method = "request"
    /\ cl_ticks = 0
    /\ cl_platform = "a"
    /\ cl_cache = <<>>
    /\ cl_inner = <<>>
    /\ cl_last = NoCall
    /\ sc_state = "created"
    /\ sc_inflight = [j \in Job |-> 0]
    /\ sc_end = [j \in Job |-> "never"]
    /\ sc_escaped = FALSE
    /\ sc_last = NoTrigger
    /\ session = "none"
    /\ unload = "loaded"
    /\ fo_pc = "off"
    /\ fo_rows = <<>>
    /\ fo_friend = "f1"
    /\ fo_game = ""
    /\ fo_now = [h |-> 0, m |-> 0, s |-> 0]
    /\ fo_fails = {}
    /\ fo_tried = {}
    /\ fo_delivered = {}
    /\ clock = 1
    /\ cmd_last = NoCmd
    /\ uf_pc = "off"
    /\ uf_rows = <<>>
    /\ uf_arg = <<"u1", "f1", 0, "">>
    /\ uf_once = <<>>
    /\ uf_twice = <<>>
    /\ tg_pc = "input"
    /\ tg_list \in GamesListInputs
    /\ tg_stats = LibrarySnapshot(<<>>, <<>>)

\* The snapshot as a function of the games list.
SpecTop == InitTop /\ [][TG_Apply]_vars

----------------------------------------------------------------------------
(* Properties.                                                             *)

\* C1: for a friend with a stored row, a notification is sent if and only if
\* the stored presence is offline (0) and the observed one is not, or the
\* observed activity is non-empty and differs from the stored one; a move
\* between two non-offline presences with the activity unchanged sends none.
C1_NotifyIff ==
    (mf_last.phase # "init" /\ mf_last.prev # <<>>) =>
        ((mf_last.msg # "none") <=>
            \/ (mf_last.prev[1] = 0 /\ mf_last.state # 0)
            \/ (mf_last.game # "" /\ mf_last.game # mf_last.prev[2]))

\* A friend stored as online without a game is observed as away without a
\* game, and the evaluation finishes without a notification.
C1_Witness ==
    /\ mf_last.phase = "stored"
    /\ mf_last.prev = <<1, "">>
    /\ mf_last.state = 3
    /\ mf_last.game = ""
    /\ mf_last.msg = "none"

\* C2: when no row is stored for a friend, the evaluation sends no
\* notification, whatever presence and activity are observed.
C2_FirstObservationSilent ==
    (mf_last.phase # "init" /\ mf_last.prev = <<>>) => mf_last.msg = "none"

\* C3: once a friend has been evaluated, the stored row equals the observed
\* presence and activity, whether or not a notification was sent and whether
\* its dispatch returned or raised.
C3_StoredEqualsObserved ==
    mf_last.phase \in {"stored", "raised"} =>
        friend_status[<<mf_last.qq, mf_last.fsid>>] = <<mf_last.state, mf_last.game>>

\* C10: when the friend-list fetch of one binding fails, every other binding
\* of the invocation is still processed: no binding other than the failing
\* one is left unprocessed when the invocation ends.
C10_OtherBindingsProcessed ==
    mf_end = "friendlist_error" => Len(mf_work) <= 1

\* C4: a news item id of a game is notified at most once: no notification is
\* sent for an item one was already delivered for, and an item that has a
\* row is never sent, even when its contents changed.
C4_NotifiedAtMostOnce ==
    /\ ~news_again
    /\ (cn_last.phase # "init" /\ cn_last.had_row) => ~cn_last.sent

\* An item that was notified with other contents is fetched again and skipped.
C4_Witness ==
    /\ cn_last.phase = "skipped"
    /\ cn_last.had_row
    /\ news_notified[<<cn_last.appid, cn_last.news_id>>] \notin {"", cn_last.contents}

\* C5: for an observed price, the target-reached notification is sent if and
\* only if the price is at most the desired one and the prior last price is
\* absent or above the desired one; so none is sent while the price stays at
\* or below the target.
C5_TargetEdge ==
    cd_last.phase \in {"stored", "raised"} =>
        /\ cd_last.target <=>
              /\ cd_last.current[1] <= cd_last.desired_price
              /\ (cd_last.last_price = <<>> \/ cd_last.last_price[1] > cd_last.desired_price)
        /\ (cd_last.last_price # <<>> /\ cd_last.last_price[1] <= cd_last.desired_price)
              => ~cd_last.target

\* The price comes down from above the target, and the notification is sent.
C5_Witness ==
    /\ cd_last.phase = "stored"
    /\ cd_last.last_price = <<120>>
    /\ cd_last.current = <<90>>
    /\ cd_last.desired_price = 100
    /\ cd_last.target

\* C6 as stated: with a desired price of 100 and no prior price, the
\* observations 120, 90, 80, 95, 85 send the target-reached notification at
\* 90, not at 80, and again at 85.
C6_FiresAt90And85 ==
    (obs_fired.on /\ Len(obs_fired.fired) = Len(PriceScript)) =>
        obs_fired.fired = <<FALSE, TRUE, FALSE, FALSE, TRUE>>

\* C6, amended: with a desired price of 100 and no prior price, the
\* observations 120, 90, 80, 95, 85 send the target-reached notification at
\* 90 only: 95 is not above 100, so 85 is no new crossing.
C6_FiresAt90Only ==
    (obs_fired.on /\ Len(obs_fired.fired) = Len(PriceScript)) =>
        obs_fired.fired = <<FALSE, TRUE, FALSE, FALSE, FALSE>>

\* The five observations have been made, in this order, on the watch.
C6_Witness ==
    /\ obs_fired.on
    /\ Len(obs_fired.fired) = Len(PriceScript)
    /\ market_watches[1] # <<>>
    /\ market_watches[1][1].last_price = <<85>>

\* C7: with the window 23:00-07:00 the quiet-hour test answers true at 23:30,
\* 00:00 and 06:59 and false at 07:01 and 22:59.
C7_WrapAround ==
    (mt_pc = "done" /\ mt_ranges = << <<[h |-> 23, m |-> 0], [h |-> 7, m |-> 0]>> >>) =>
        (mt_result <=> mt_now \in {[h |-> 23, m |-> 30, s |-> 0],
                                   [h |-> 0, m |-> 0, s |-> 0],
                                   [h |-> 6, m |-> 59, s |-> 0]})

\* C8: in every invocation, every deals subscription whose game is in the
\* featured listing gets its discount notification.
C8_ListedDealNotified ==
    (cd_deal.phase # "init" /\ cd_deal.listed) => cd_deal.sent

\* C9: against yesterday's snapshot, the daily delta stored with today's
\* snapshot is the sum over today's games of max(0, today's hours minus
\* yesterday's hours), yesterday's hours being 0 for a game the snapshot
\* does not hold.
C9_DailyDelta ==
    (gl_last.phase = "saved" /\ gl_last.yesterday # <<>>) =>
        LET before == gl_last.yesterday[1].games
            yesterday_hours(appid) ==
                IF appid \in {y[1] : y \in before}
                THEN (CHOOSE y \in before : y[1] = appid)[2]
                ELSE 0
            gain(g) ==
                IF g[2] \div 60 - yesterday_hours(g[1]) > 0
                THEN g[2] \div 60 - yesterday_hours(g[1])
                ELSE 0
        IN  library_stats[<<gl_last.qq, gl_last.day>>][1].daily_playtime =
                SumOver([g \in gl_last.games |-> gain(g)], gl_last.games)

\* Yesterday game 10 stood at 10 hours; today it stands at 12 hours and game
\* 20 is new with 3 hours: the stored delta is 5 hours.
C9_Witness ==
    /\ gl_last.phase = "saved"
    /\ gl_last.yesterday # <<>>
    /\ gl_last.yesterday[1].games = {<<10, 10>>}
    /\ gl_last.games = {<<10, 720>>, <<20, 180>>}
    /\ library_stats[<<gl_last.qq, gl_last.day>>][1].daily_playtime = 5

\* C11: every fetch method returns an explicit empty result and raises
\* nothing when its outbound call fails, for each kind of failure: timeout,
\* connection error, non-2xx status.
C11_FailureReturnsEmpty ==
    (cl_last.outbound /\ cl_last.kind # "ok") =>
        (cl_last.phase = "returned" /\ cl_last.value = <<EmptyResult>>)

\* C12: the calls monitor_friends makes for friend lists and player
\* summaries (through request) are never served from the cache: each issues
\* the outbound call, and what it returns is what the platform answers then.
C12_PresenceCallsAreFresh ==
    (cl_method = "request" /\ cl_last.phase # "init") =>
        /\ cl_last.outbound
        /\ cl_last.phase = "returned" => cl_last.value \in {<<cl_last.platform>>, <<EmptyResult>>}

\* C13: no job ever has two invocations in flight (a trigger that finds the
\* job running is skipped), while invocations of different jobs overlap.
C13_OneInstancePerJob ==
    \A j \in Job : sc_inflight[j] <= 1

\* A trigger of a running job was skipped while another job runs as well.
C13_Witness ==
    /\ sc_last.event = "skipped"
    /\ sc_inflight[sc_last.job] = 1
    /\ \E j \in Job \ {sc_last.job} : sc_inflight[j] = 1

\* C14: an error raised in the body of a job never leaves the job function:
\* the scheduler keeps running, the job is started again at its next
\* trigger, and the other jobs go on.
C14_ErrorsStayInJob ==
    /\ ~sc_escaped
    /\ \A j \in Job : sc_end[j] # "escaped"
    /\ \A j \in Job : (sc_state = "running" /\ sc_end[j] = "failed" /\ sc_inflight[j] = 0)
                          => ENABLED SC_Trigger

\* monitor_friends failed and its next invocation is in flight, while
\* another job, which completed since, is in flight too.
C14_Witness ==
    /\ sc_state = "running"
    /\ sc_end["monitor_friends"] = "failed"
    /\ sc_inflight["monitor_friends"] = 1
    /\ sc_end["check_game_news"] = "completed"
    /\ sc_inflight["check_game_news"] = 1

C16_DispatchFailureContinues ==
    mf_end # "dispatch_error"

\* C17: in the group fan-out, when send_to_group raises for a group or a
\* group's preference does not parse, every other group whose preference
\* passes the filter still receives the message.
C17_OtherGroupsReceive ==
    fo_pc = "done" =>
        \A i \in 1..Len(fo_rows) :
            (/\ GroupPasses(fo_rows[i][2], fo_friend, fo_game, fo_now)
             /\ fo_rows[i][1] \notin fo_fails)
                => fo_rows[i][1] \in fo_delivered

\* The first group's send raises, and the second group receives.
C17_Witness ==
    /\ fo_pc = "done"
    /\ Len(fo_rows) = 2
    /\ fo_rows[1][1] \in fo_tried \cap fo_fails
    /\ fo_rows[2][1] \in fo_delivered

\* C18: a group with a (parsable) stored preference is sent the message if
\* and only if none of these holds: only_game is set and the activity is
\* empty; a friends list is set and the friend is not on it; the local time
\* lies within one of the quiet-hour windows, boundaries included, a window
\* with start > end spanning midnight.
C18_FilterIff ==
    fo_pc = "done" =>
        \A i \in 1..Len(fo_rows) :
            LET cfg == fo_rows[i][2]
                at(t) == t.h * 3600 + t.m * 60
                within(r) ==
                    IF at(r[1]) <= at(r[2])
                    THEN at(r[1]) <= TimeSecs(fo_now) /\ TimeSecs(fo_now) <= at(r[2])
                    ELSE at(r[1]) <= TimeSecs(fo_now) \/ TimeSecs(fo_now) <= at(r[2])
            IN  cfg.ok =>
                  (fo_rows[i][1] \in fo_tried <=>
                      /\ ~(cfg.only_game /\ fo_game = "")
                      /\ ~(cfg.friends # {} /\ fo_friend \notin cfg.friends)
                      /\ ~(\E k \in 1..Len(cfg.mute) : within(cfg.mute[k])))

\* C19: for a priced observation of a watch, the volatility notification is
\* sent if and only if a prior price exists and |current - prior| / prior *
\* 100 >= the threshold (15), whether or not the target notification fired.
C19_VolatilityIff ==
    (cd_last.phase \in {"stored", "raised"} /\ cd_last.last_price # <<0>>) =>
        (cd_last.change <=>
            /\ cd_last.last_price # <<>>
            /\ (IF cd_last.current[1] >= cd_last.last_price[1]
                THEN cd_last.current[1] - cd_last.last_price[1]
                ELSE cd_last.last_price[1] - cd_last.current[1]) * 100
                    >= 15 * cd_last.last_price[1])

\* C20: when the price fetch of a watch fails, reports no success or gives
\* no parsable price, the watch's row is left unchanged, nothing is sent for
\* it, and the pass goes on with the next watch.
C20_SkipAndContinue ==
    /\ cd_last.phase = "skipped" =>
          /\ ~cd_last.target /\ ~cd_last.change
          /\ market_watches[cd_last.id] # <<>>
          /\ market_watches[cd_last.id][1].last_price = cd_last.last_price
    /\ cd_end = "price_error" => Len(cd_watches) <= 1

\* C21: when the outbound request of a call failed in one tick, the same
\* call in the next tick of monitor_friends issues a new outbound request:
\* the failed tick's empty result is not what the later tick works on.
C21_FailedFetchIsRetried ==
    (/\ cl_method = "request"
     /\ cl_last.phase # "init"
     /\ cl_last.prev_failed
     /\ cl_last.at = cl_last.prev_at + 1)
        => cl_last.outbound

\* C22: an empty fetch result never overwrites stored state: a binding of
\* monitor_friends whose friend list or summaries come back empty leaves
\* every friend_status row as it is, and a binding of generate_library_stats
\* whose games list comes back empty writes no snapshot and leaves the
\* snapshots there are as they are.
C22_EmptyResultKeepsState ==
    [][/\ (mf_pc \in {"friendlist", "summaries"} /\ mf_work' = Tail(mf_work))
             => friend_status' = friend_status
       /\ (gl_pc = "binding" /\ gl_work' = Tail(gl_work) /\ gl_last'.games = {})
             => library_stats' = library_stats]_vars

\* A binding's friends came back empty and a binding's games came back
\* empty, with a friend row and today's snapshot stored before.
C22_Witness ==
    /\ mf_end = "completed"
    /\ mf_last.phase = "init"
    /\ friend_status[<<"u1", "f1">>] = <<1, "g1">>
    /\ gl_last.phase = "skipped"
    /\ library_stats[<<"u1", gl_last.day>>] # <<>>

\* C23 as stated: for a friend with a stored row, when the presence rule
\* (offline to non-offline) and the activity rule (a non-empty activity that
\* differs from the stored one) both fire the one message is the activity
\* message, and when only the presence rule fires it is the 'came online'
\* message.
C23_ActivityOrCameOnline ==
    (mf_last.phase # "init" /\ mf_last.prev # <<>>
        /\ mf_last.prev[1] = 0 /\ mf_last.state # 0) =>
            mf_last.msg = IF mf_last.game # "" /\ mf_last.game # mf_last.prev[2]
                          THEN "start_game" ELSE "online"

\* C23, amended: one message is chosen for the friend; when both rules fire
\* it is the activity message; when only the presence rule fires it is the
\* 'came online' message if the observed activity is empty and the 'is
\* playing' message, which names the activity, if it is not.
C23_OneMessage ==
    (mf_last.phase # "init" /\ mf_last.prev # <<>>
        /\ mf_last.prev[1] = 0 /\ mf_last.state # 0) =>
            mf_last.msg = IF mf_last.game # "" /\ mf_last.game # mf_last.prev[2]
                          THEN "start_game"
                          ELSE IF mf_last.game = "" THEN "online" ELSE "in_game"

\* A friend stored as offline with an activity comes online with the same
\* activity: the 'is playing' message went out.
C23_Witness ==
    /\ mf_last.phase = "stored"
    /\ mf_last.prev = <<0, "g1">>
    /\ mf_last.state = 1
    /\ mf_last.game = "g1"
    /\ mf_last.msg = "in_game"

\* C24: update_friend_status applied twice with the same observed presence
\* and activity for the same (user, friend) leaves the table as one
\* application leaves it: one row for the pair, holding that value.
C24_UpsertIdempotent ==
    uf_pc = "done" =>
        /\ uf_twice = uf_once
        /\ Cardinality({i \in 1..Len(uf_twice) :
                           uf_twice[i][1] = uf_arg[1] /\ uf_twice[i][2] = uf_arg[2]}) = 1
        /\ \E i \in 1..Len(uf_twice) : uf_twice[i] = uf_arg

\* The pair had no row: the first application inserted it and the second
\* updated it.
C24_Witness ==
    /\ uf_pc = "done"
    /\ GetFriendStatus(uf_rows, uf_arg[1], uf_arg[2]) = <<>>
    /\ Len(uf_rows) = 1
    /\ Len(uf_twice) = 2

\* C25: a watch is deleted only by the unwatch command of its owner: a step
\* that deletes a watch is the removal request of the watch's owner naming
\* its id, a removal request of anyone else leaves every watch as it is, and
\* no step of a job deletes a watch.
C25_OnlyOwnerDeletes ==
    [][LET jobStep ==
               <<cd_pc, cd_subs, cd_map, cd_deal, cd_watches, cd_last, cd_end, obs_fired>>'
                   # <<cd_pc, cd_subs, cd_map, cd_deal, cd_watches, cd_last, cd_end, obs_fired>>
           cmdStep == ~jobStep /\ clock' = clock
       IN  /\ \A i \in WatchId :
                 (market_watches[i] # <<>> /\ market_watches'[i] = <<>>) =>
                     /\ cmdStep
                     /\ cmd_last'.event = "unwatch"
                     /\ cmd_last'.id = i
                     /\ cmd_last'.qq = market_watches[i][1].qq
           /\ (cmdStep /\ (market_watches[cmd_last'.id] = <<>>
                              \/ market_watches[cmd_last'.id][1].qq # cmd_last'.qq))
                 => market_watches' = market_watches
           /\ jobStep => \A i \in WatchId : market_watches[i] # <<>> => market_watches'[i] # <<>>
      ]_vars

\* u1 asked to remove the watch of u2, which is there still and was checked
\* by the job.
C25_Witness ==
    /\ cmd_last.event = "unwatch"
    /\ cmd_last.qq = "u1"
    /\ cmd_last.id = 2
    /\ market_watches[2] # <<>>
    /\ market_watches[2][1].qq = "u2"
    /\ market_watches[2][1].last_price # <<>>

\* C30: once the price fetch of a watch gave a parsable price, the watch's
\* row holds that price as last_price and the time of the check as
\* last_check, whether or not a notification was due and whether its
\* dispatch returned or raised.
C30_LastPriceRecorded ==
    (cd_last.phase \in {"stored", "raised"} /\ market_watches[cd_last.id] # <<>>) =>
        /\ market_watches[cd_last.id][1].last_price = cd_last.current
        /\ market_watches[cd_last.id][1].last_check = cd_last.at

\* In a later pass the target notification was due and its dispatch raised:
\* the row holds the new price and the later time.
C30_Witness ==
    /\ cd_last.phase = "raised"
    /\ cd_last.target
    /\ cd_last.last_price # <<>>
    /\ cd_last.at > 1
    /\ market_watches[cd_last.id] # <<>>
    /\ market_watches[cd_last.id][1].last_price = cd_last.current
    /\ market_watches[cd_last.id][1].last_check = cd_last.at

\* C26: a platform response without an expected field is handled with the
\* defaults: no invocation of monitor_friends ends because a friends entry
\* or a player came without its steamid.
C26_MissingFieldNeverAborts == mf_end # "key_error"

\* C27: an invocation of check_game_news takes as its work list exactly the
\* pairs whose news flag is true when it starts, works that list down and
\* notifies only the user at its head; check_game_discounts takes exactly
\* the pairs whose deals flag is true when it starts; a subscribe command
\* leaves the row with exactly its two flags; and once u1 has subscribed to
\* the game again with news=false, no invocation of check_game_news that
\* started afterwards has the pair in its work list or sends its news.
C27_FlagsSelect ==
    /\ [][
           /\ (cn_pc = "idle" /\ <<cn_pc, cn_work, cn_end>>' # <<cn_pc, cn_work, cn_end>>) =>
                ( /\ {cn_work'[i] : i \in 1..Len(cn_work')}
                        = NewsSubscriptions(game_subscriptions)
                  /\ Len(cn_work') = Cardinality(NewsSubscriptions(game_subscriptions)) )
           /\ (cn_pc # "idle") => (cn_work' = cn_work \/ cn_work' = Tail(cn_work))
           /\ (cn_pc' = "send" /\ cn_pc # "send") =>
                (cn_last'.qq = Head(cn_work)[1] /\ cn_last'.appid = Head(cn_work)[2])
           /\ (cd_pc = "idle" /\ cd_pc' = "featured") =>
                ( /\ {cd_subs'[i] : i \in 1..Len(cd_subs')}
                        = DealsSubscriptions(game_subscriptions)
                  /\ Len(cd_subs') = Cardinality(DealsSubscriptions(game_subscriptions)) )
          ]_vars
    /\ [](cmd_last.event = "subscribe" =>
            game_subscriptions[<<cmd_last.qq, cmd_last.id>>] = <<cmd_last.news, cmd_last.deals>>)
    /\ []((cmd_last.event = "subscribe" /\ ~cmd_last.news /\ cmd_last.news_started) =>
            ( /\ \A i \in 1..Len(cn_work) : cn_work[i] # <<cmd_last.qq, cmd_last.id>>
              /\ ~(cn_pc = "send" /\ cn_last.qq = cmd_last.qq /\ cn_last.appid = cmd_last.id) ))

\* News of game 10 had been sent before; u1 subscribed again with
\* news=false; an invocation that started afterwards is sending news of
\* that game to u2.
C27_Witness ==
    /\ cmd_last.event = "subscribe"
    /\ ~cmd_last.news
    /\ cmd_last.news_started
    /\ news_notified[<<10, "n1">>] # ""
    /\ cn_pc = "send"
    /\ cn_last.qq = "u2"
    /\ cn_last.appid = 10

\* C28: the snapshot lists at most 20 games, each a game of the library
\* with its playtime, in non-increasing order of playtime; no game of the
\* library that is not listed has more playtime than a listed one; and
\* total_games and total_playtime are the count and the sum over the whole
\* library.
C28_TopTwenty ==
    tg_pc = "done" =>
        LET top == tg_stats.games
            listed == {top[i][1] : i \in 1..Len(top)}
        IN  /\ Len(top) <= 20
            /\ Len(top) = Cardinality(listed)
            /\ \A i \in 1..Len(top) : \E k \in 1..Len(tg_list) :
                    tg_list[k][1] = top[i][1] /\ tg_list[k][2] = top[i][2] * 60
            /\ \A i, j \in 1..Len(top) : i < j => top[i][2] >= top[j][2]
            /\ \A k \in 1..Len(tg_list) : tg_list[k][1] \notin listed =>
                    \A i \in 1..Len(top) : tg_list[k][2] <= top[i][2] * 60
            /\ tg_stats.total_games = Len(tg_list)
            /\ tg_stats.total_playtime * 60 = SumPlaytime(tg_list)

\* A library of more than 20 games that came in ascending order of
\* playtime: 20 are listed, the one with the most playtime first.
C28_Witness ==
    /\ tg_pc = "done"
    /\ Len(tg_list) > 20
    /\ Len(tg_stats.games) = 20
    /\ \A k \in 1..(Len(tg_list) - 1) : tg_list[k][2] < tg_list[k + 1][2]
    /\ tg_stats.games[1][1] = tg_list[Len(tg_list)][1]
    /\ tg_stats.total_games = Len(tg_list)

\* C29: within one invocation of monitor_friends a binding gets at most one
\* friend-list request and at most one summaries request, however many
\* players are then gone through: the job comes to its friend-list request
\* only by starting or by moving to the next binding, and to its summaries
\* request only from the friend-list request of the same binding.
C29_OneRequestEach ==
    [][/\ (mf_pc' = "friendlist" /\ <<mf_pc, mf_work>>' # <<mf_pc, mf_work>>) =>
            (mf_pc = "idle" \/ mf_work' = Tail(mf_work))
       /\ (mf_pc' = "summaries") =>
            (mf_pc = "friendlist" /\ mf_work' = mf_work)
       /\ (mf_pc = "friendlist" /\ mf_pc' = "friendlist") => mf_work' # mf_work
      ]_vars

\* The second player of one summaries answer is gone through, after the
\* first was stored, with the binding still the same.
C29_Witness ==
    /\ mf_pc = "eval"
    /\ mf_left = 1
    /\ mf_last.phase = "stored"
    /\ mf_last.qq = Head(mf_work)[1]

\* C31: for each of the seven cached endpoints, a call that follows, within
\* the endpoint's ttl, a call that issued the outbound request and
\* returned, issues no outbound request and returns the same result; a
\* call that follows it after the ttl has run out issues a new outbound
\* request; and every call of partner_request issues an outbound request.
C31_OneRequestPerTtl ==
    LET ttl == CASE cl_method \in {"get_achievements", "get_all_achievements",
                                   "get_owned_games", "get_market_price"} -> 1800
                 [] cl_method \in {"get_news_for_app", "get_game_details"} -> 3600
                 [] cl_method = "get_featured_games" -> 14400
                 [] OTHER -> 0
    IN  /\ (cl_method = "partner_request" /\ cl_last.phase # "init") => cl_last.outbound
        /\ (/\ ttl > 0
             /\ cl_last.phase # "init"
             /\ cl_last.prev_outbound
             /\ cl_last.prev_value # <<>>) =>
                IF (cl_last.at - cl_last.prev_at) * 60 < ttl
                THEN /\ ~cl_last.outbound
                     /\ cl_last.phase = "returned"
                     /\ cl_last.value = cl_last.prev_value
                ELSE cl_last.outbound

\* get_owned_games is called again more than 300 s after the call that
\* fetched, within its own ttl: the stored result is returned, which the
\* platform would no longer give.
C31_Witness ==
    /\ cl_method = "get_owned_games"
    /\ cl_last.phase = "returned"
    /\ ~cl_last.outbound
    /\ cl_last.prev_outbound
    /\ (cl_last.at - cl_last.prev_at) * 60 > 300
    /\ cl_last.value = cl_last.prev_value
    /\ cl_last.value # <<cl_last.platform>>
    /\ cl_last.value # <<EmptyResult>>

\* C32: a failure in the discount pass does not keep the price-watch pass
\* from running: no step taken in the discount pass (the fetch of the
\* listing, the loop over the deals subscriptions) ends the invocation.
C32_PassesIndependent ==
    [][(cd_pc \in {"featured", "deals"}) => (cd_pc' # "idle")]_vars

\* C36: once a watch has been removed, no step of the price-watch pass
\* sends a target or volatility notification for it, and its row does not
\* come back.
C36_NoNoticeAfterRemoval ==
    [][/\ (/\ cd_pc = "price"
            /\ <<cd_pc, cd_watches>>' # <<cd_pc, cd_watches>>
            /\ cd_end' # "price_error"
            /\ cd_last'.phase = "stored"
            /\ (cd_last'.target \/ cd_last'.change)) =>
                market_watches[Head(cd_watches).id] # <<>>
       /\ \A i \in WatchId :
            (market_watches[i] = <<>>) => (market_watches'[i] = <<>>)
      ]_vars

\* C33: a news item that appears is notified to every user subscribed to the
\* news of its game: an item delivered to some subscriber is skipped for a
\* subscriber only when that subscriber was notified of it.
C33_EverySubscriberTold ==
    (/\ cn_last.phase = "skipped"
     /\ news_notified[<<cn_last.appid, cn_last.news_id>>] # "") =>
        <<cn_last.qq, cn_last.appid, cn_last.news_id>> \in news_told

\* C34: a game whose playtime is the same yesterday and today adds nothing
\* to today's daily delta, whatever the size of the library: a library that
\* did not change between two consecutive daily runs has a delta of 0.
C34_UnchangedAddsNothing ==
    tg_pc = "done" => tg_stats.daily_playtime = 0

\* C35: a snapshot written on a day whose previous calendar day has no
\* snapshot of that user carries a daily delta of 0, and a delta other than
\* 0 was computed against the snapshot stored for the previous calendar day.
C35_NoSnapshotNoDelta ==
    gl_last.phase = "saved" =>
        LET stored == library_stats[<<gl_last.qq, gl_last.day>>][1].daily_playtime
            before == IF gl_last.day - 1 \in 1..MaxDay
                      THEN library_stats[<<gl_last.qq, gl_last.day - 1>>]
                      ELSE <<>>
        IN  /\ (before = <<>>) => (stored = 0)
            /\ (stored # 0) => (before # <<>> /\ gl_last.yesterday = before)

\* Day 1 has a snapshot with game 10 at 10 hours, day 2 has none; on day 3
\* game 10 stands at 12 hours and the snapshot is written with delta 0.
C35_Witness ==
    /\ gl_last.phase = "saved"
    /\ gl_last.day = 3
    /\ library_stats[<<gl_last.qq, 1>>] # <<>>
    /\ library_stats[<<gl_last.qq, 1>>][1].games = {<<10, 10>>}
    /\ library_stats[<<gl_last.qq, 2>>] = <<>>
    /\ gl_last.games = {<<10, 720>>}
    /\ library_stats[<<gl_last.qq, 3>>][1].daily_playtime = 0

\* C38: every friend notification that fires goes to the private send of
\* the bound user, whatever the group preferences: the evaluation that
\* builds a message is followed by send_to_user, and the job leaves that
\* send with the private message delivered unless the send itself raised.
C38_PrivateAlways ==
    [][/\ (mf_pc = "eval" /\ mf_last' # mf_last /\ mf_last'.msg # "none") =>
            (mf_pc' = "send_user")
       /\ (mf_pc = "send_user" /\ mf_last' # mf_last) =>
            (mf_last'.private \/ mf_last'.phase = "raised")
      ]_vars

\* A notification of u1, whose two group preferences both suppress it: no
\* group is tried and the private message is delivered.
C38_Witness ==
    /\ mf_last.phase = "stored"
    /\ mf_last.msg # "none"
    /\ mf_last.private
    /\ Len(notify_prefs[mf_last.qq]) = 2
    /\ mf_last.tried = {}

\* C39: the row of a news item is written only after its notification's
\* dispatch returned: the table changes only in the step in which the
\* dispatch returns, and only at that item; a dispatch that raises leaves
\* the table as it was, the item still counting as not sent, so that its
\* next evaluation notifies again; and every row stands for an item whose
\* dispatch returned for some user.
C39_RowAfterDispatch ==
    [][/\ (news_history' # news_history) =>
            (/\ cn_pc = "send"
             /\ cn_last'.phase = "stored"
             /\ \A k \in App \X NewsId :
                    (news_history'[k] # news_history[k]) =>
                        (k = <<cn_last.appid, cn_last.news_id>>))
       /\ (cn_pc = "send" /\ cn_last'.phase = "raised") =>
            (/\ news_history' = news_history
             /\ NotExists(CheckNewsSent(news_history', cn_last.appid, cn_last.news_id)))
       /\ \A k \in App \X NewsId :
            (news_history'[k] # <<>>) => (\E u \in User : <<u, k[1], k[2]>> \in news_told')
      ]_vars

\* The dispatch of item n1 of game 10 raised: the invocation ended there
\* and the item has no row.
C39_Witness ==
    /\ cn_last.phase = "raised"
    /\ cn_end = "dispatch_error"
    /\ cn_last.news_id = "n1"
    /\ news_history[<<cn_last.appid, cn_last.news_id>>] = <<>>

\* C37: after on_unload has closed the client, once no invocation is in
\* flight any more the client holds no open session.
C37_NoSessionAfterUnload ==
    (unload = "unloaded" /\ \A j \in Job : sc_inflight[j] = 0) => (session # "open")

====
